---- MODULE Spec2Model ----
(***************************************************************************)
(* A model of the DB48X bignum kernels (src/src/bignum.cc) and of the      *)
(* renderer's scratchpad accounting (renderer.cc, carried in               *)
(* src/src/loops.h).                                                       *)
(*                                                                         *)
(* A bignum object is a record [type, bytes]: the type tag and the         *)
(* little-endian magnitude bytes.  C index i of a byte array is element    *)
(* i + 1 of the sequence.  The null pointer is the record NULL.            *)
(***************************************************************************)
EXTENDS Integers, Sequences, FiniteSets, TLC

VARIABLES
    yg,         \* first operand of the bignum operation (y)
    xg,         \* second operand of the bignum operation (x)
    Settings,   \* [wordsize, maxbignum]
    error,      \* the runtime's error slot
    scratch,    \* number of bytes currently allocated in the scratchpad
    last,       \* what the last bignum operation did and returned
    rnd,        \* the renderer: its fields, and its scratchpad accounting
    rt,         \* the runtime: the stack and the text of the editor
    ui,         \* the user interface: the fields of the class
    Screen      \* what was drawn on the screen, in order

vars == <<yg, xg, Settings, error, scratch, last, rnd, rt, ui, Screen>>

(***************************************************************************)
(* Bounds of the model                                                     *)
(***************************************************************************)
\* Operand magnitudes are 0..MaxSmall plus the multi-byte values of SpecialMags
MaxSmall == 3
\* pow: the allocation that fails is the 1st..MaxFail-th one (0: none fails)
MaxFail == 2
\* Exact values are compared up to 2^CapBits, and saturate above
CapBits == 15
\* The bytes of the scratchpad the renderer may use
ScratchSize == 6
\* put and printf are not called once `written` is over this
MaxWritten == 6
\* The deepest indentation
MaxTabs == 1

(***************************************************************************)
(* Type tags (ids.tbl)                                                     *)
(***************************************************************************)
ID_based_bignum == "based_bignum"
ID_bignum       == "bignum"
ID_neg_bignum   == "neg_bignum"
ID_integer      == "integer"
ID_neg_integer  == "neg_integer"

NULL == [type |-> "nullptr", bytes |-> <<>>]

\* gcp<T>::Safe(): the pointer is not null
Safe(o) == o.type # "nullptr"

(***************************************************************************)
(* Byte sequences                                                          *)
(***************************************************************************)
Pow2(n) == 2 ^ n

Zeros(n) == [i \in 1..n |-> 0]

Take(s, n) == [i \in 1..n |-> s[i]]

RECURSIVE Strip(_)
\* "while (sz > 0 && buffer[sz-1] == 0) sz--": drop the high-order zero bytes
Strip(s) == IF Len(s) > 0 /\ s[Len(s)] = 0 THEN Strip(Take(s, Len(s) - 1)) ELSE s

\* bit number `bit` of byte b
BitOf(b, bit) == (b \div Pow2(bit)) % 2

Max(a, b) == IF a >= b THEN a ELSE b
Min(a, b) == IF a <= b THEN a ELSE b

(***************************************************************************)
(* Helpers of bignum.h, which is not part of the sources at hand: they are *)
(* modelled from the specification (sections 3 and 4.5).                   *)
(***************************************************************************)
\* A based number is an integer whose arithmetic word size is fixed
is_based(type) == type = ID_based_bignum

\* The word size W in bits that applies to a type: Settings.wordsize for the
\* based types, 0 (no truncation) for the signed ones
wordsize(type) == IF is_based(type) THEN Settings.wordsize ELSE 0

\* The magnitude is zero
is_zero(o) == \A i \in 1..Len(o.bytes) : o.bytes[i] = 0

\* Sign-magnitude product: negative iff exactly one operand is negative;
\* a based operand x gives a based result
product_type(yt, xt) ==
    CASE xt = ID_bignum     -> IF yt = ID_neg_bignum THEN ID_neg_bignum ELSE ID_bignum
      [] xt = ID_neg_bignum -> IF yt = ID_neg_bignum THEN ID_bignum ELSE ID_neg_bignum
      [] OTHER              -> xt

\* rt.make<bignum>(ty, bytes, len): an object of type ty holding the first
\* len bytes
make_bignum(ty, bytes, len) == [type |-> ty, bytes |-> Take(bytes, len)]

(***************************************************************************)
(* bignum::multiply                                                        *)
(***************************************************************************)
RECURSIVE mul_add(_, _, _, _, _, _, _)
\* The two inner loops of multiply: add y << bit into buffer at byte xi, then
\* propagate the carry, never writing at or above `needed`
mul_add(buffer, y, xi, bit, needed, yi, c) ==
    IF yi < Len(y) /\ xi + yi < needed
    THEN LET c1 == c + buffer[xi + yi + 1] + y[yi + 1] * Pow2(bit)
         IN  mul_add([buffer EXCEPT ![xi + yi + 1] = c1 % 256],
                     y, xi, bit, needed, yi + 1, c1 \div 256)
    ELSE IF c # 0 /\ xi + yi < needed
    THEN LET c1 == c + buffer[xi + yi + 1]
         IN  mul_add([buffer EXCEPT ![xi + yi + 1] = c1 % 256],
                     y, xi, bit, needed, yi + 1, c1 \div 256)
    ELSE buffer

\* One pass of "for (int bit = 0; xd && bit < 8; bit++)", or the step to the
\* next byte of x when that loop ends.  m is [buffer, xi, bit, xd]
mul_step(m, y, x, needed) ==
    IF m.xd # 0 /\ m.bit < 8
    THEN IF BitOf(m.xd, m.bit) = 1
         THEN [buffer |-> mul_add(m.buffer, y, m.xi, m.bit, needed, 0, 0),
               xi |-> m.xi, bit |-> m.bit + 1, xd |-> m.xd - Pow2(m.bit)]
         ELSE [m EXCEPT !.bit = m.bit + 1]
    ELSE [buffer |-> m.buffer, xi |-> m.xi + 1, bit |-> 0,
          xd |-> IF m.xi + 1 < Len(x) THEN x[m.xi + 2] ELSE 0]

RECURSIVE mul_loop(_, _, _, _)
\* for (size_t xi = 0; xi < xs; xi++) { byte xd = x[xi]; for (bit ...) ... }
mul_loop(m, y, x, needed) ==
    IF m.xi < Len(x) THEN mul_loop(mul_step(m, y, x, needed), y, x, needed)
    ELSE m.buffer

\* "Loop on all bytes of x then y", from the zeroed buffer
mul_bytes(y, x, needed) ==
    mul_loop([buffer |-> Zeros(needed), xi |-> 0, bit |-> 0,
              xd |-> IF Len(x) > 0 THEN x[1] ELSE 0], y, x, needed)

\* The number of scratchpad bytes multiply asks for
mul_needed(y, x) ==
    LET wbits  == wordsize(x.type)
        wbytes == (wbits + 7) \div 8
        needed == Len(x.bytes) + Len(y.bytes)
    IN  IF wbits # 0 /\ needed > wbytes THEN wbytes ELSE needed

\* Mutant of multiply: returns without freeing when the result cannot be built
multiply_leak(y, x, ty, mem) ==
    LET needed == mul_needed(y, x)
    IN  IF (Len(x.bytes) + Len(y.bytes)) * 8 > Settings.maxbignum
        THEN [result |-> NULL, err |-> "number_too_big",
              allocated |-> 0, freed |-> 0]
        ELSE IF mem = "alloc_fail"
        THEN [result |-> NULL, err |-> "out_of_memory",
              allocated |-> 0, freed |-> 0]
        ELSE LET buffer == mul_bytes(y.bytes, x.bytes, needed)
                 sz     == Len(Strip(buffer))
             IN  [result    |-> IF mem = "make_fail" THEN NULL
                                ELSE make_bignum(ty, buffer, sz),
                  err       |-> IF mem = "make_fail" THEN "out_of_memory"
                                ELSE "none",
                  allocated |-> needed,
                  freed     |-> IF mem = "make_fail" THEN 0 ELSE needed]

\* Mutant of multiply: maxbignum is tested against `needed` after the word
\* size has capped it
multiply_late_test(y, x, ty, mem) ==
    LET needed == mul_needed(y, x)
    IN  IF needed * 8 > Settings.maxbignum
        THEN [result |-> NULL, err |-> "number_too_big",
              allocated |-> 0, freed |-> 0]
        ELSE IF mem = "alloc_fail"
        THEN [result |-> NULL, err |-> "out_of_memory",
              allocated |-> 0, freed |-> 0]
        ELSE LET buffer == mul_bytes(y.bytes, x.bytes, needed)
                 sz     == Len(Strip(buffer))
             IN  [result    |-> IF mem = "make_fail" THEN NULL
                                ELSE make_bignum(ty, buffer, sz),
                  err       |-> IF mem = "make_fail" THEN "out_of_memory"
                                ELSE "none",
                  allocated |-> needed,
                  freed     |-> needed]

\* multiply(yg, xg, ty).  mem is what the heap does: "ok", "alloc_fail" (the
\* scratchpad allocation fails) or "make_fail" (building the result fails).
\* Returns the result, the error raised ("none" if none) and the scratchpad
\* bytes allocated and freed.
multiply(y, x, ty, mem) ==
    LET needed == mul_needed(y, x)
    IN  IF (Len(x.bytes) + Len(y.bytes)) * 8 > Settings.maxbignum
        THEN [result |-> NULL, err |-> "number_too_big",
              allocated |-> 0, freed |-> 0]
        ELSE IF mem = "alloc_fail"
        THEN [result |-> NULL, err |-> "out_of_memory",
              allocated |-> 0, freed |-> 0]
        ELSE LET buffer == mul_bytes(y.bytes, x.bytes, needed)
                 sz     == Len(Strip(buffer))
             IN  [result    |-> IF mem = "make_fail" THEN NULL
                                ELSE make_bignum(ty, buffer, sz),
                  err       |-> IF mem = "make_fail" THEN "out_of_memory"
                                ELSE "none",
                  allocated |-> needed,
                  freed     |-> needed]

\* operator*(y, x)
op_mul(y, x, mem) ==
    IF ~Safe(x) \/ ~Safe(y)
    THEN [result |-> NULL, err |-> "none", allocated |-> 0, freed |-> 0]
    ELSE multiply(y, x, product_type(y.type, x.type), mem)

(***************************************************************************)
(* bignum::quorem                                                          *)
(*                                                                         *)
(* The scratchpad buffer holds the quotient (ys bytes) followed by the     *)
(* remainder (xs + 1 bytes): remainder[ri] is buffer[ys + ri].             *)
(***************************************************************************)
\* x[i] as the division loop reads it: a read at or above xs is a read past
\* the divisor's bytes, which yields whatever byte lies there (junk)
x_at(x, i, junk) == IF i < Len(x) THEN x[i + 1] ELSE junk

RECURSIVE q_shift(_, _, _, _, _, _)
\* "Shift remainder left by one bit, add numerator bit": the loop on ri < rs.
\* st is [buffer, c, delta]; c is a uint16_t
q_shift(st, x, ys, rs, ri, junk) ==
    IF ri < rs
    THEN LET c1 == (st.c + st.buffer[ys + ri + 1] * 2) % 65536
             b  == c1 % 256
             d  == b - x_at(x, ri, junk)
         IN  q_shift([buffer |-> [st.buffer EXCEPT ![ys + ri + 1] = b],
                      c      |-> c1 \div 256,
                      delta  |-> IF d # 0 THEN d ELSE st.delta],
                     x, ys, rs, ri + 1, junk)
    ELSE st

RECURSIVE q_sub(_, _, _, _, _, _)
\* "subtract from rem": c = remainder[ri] - (ri < xs ? x[ri] : 0) - c
q_sub(buffer, x, ys, rs, ri, c) ==
    IF ri < rs
    THEN LET c1 == (buffer[ys + ri + 1]
                    - (IF ri < Len(x) THEN x[ri + 1] ELSE 0) - c) % 65536
         IN  q_sub([buffer EXCEPT ![ys + ri + 1] = c1 % 256],
                   x, ys, rs, ri + 1, IF c1 > 255 THEN 1 ELSE 0)
    ELSE buffer

RECURSIVE q_strip(_, _, _)
\* "Strip zeroes at top of remainder"
q_strip(buffer, ys, rs) ==
    IF rs > 0 /\ buffer[ys + rs] = 0 THEN q_strip(buffer, ys, rs - 1) ELSE rs

\* quotient[yi] |= (1 << bit)
BitSet(b, bit) == IF BitOf(b, bit) = 1 THEN b ELSE b + Pow2(bit)

\* if (c) { if (int d = c - x[rs]) delta = d; remainder[rs++] = c; }
\* if (rs != xs) delta = int(rs) - int(xs);
\* sh is [buffer, c, delta] as the shift loop leaves it; gives [buffer, rs, delta]
q_carry(sh, x, ys, rs, junk) ==
    IF sh.c # 0
    THEN [buffer |-> [sh.buffer EXCEPT ![ys + rs + 1] = sh.c],
          rs     |-> rs + 1,
          delta  |-> IF rs + 1 # Len(x) THEN rs + 1 - Len(x)
                     ELSE IF sh.c - x_at(x, rs, junk) # 0
                     THEN sh.c - x_at(x, rs, junk)
                     ELSE sh.delta]
    ELSE [buffer |-> sh.buffer,
          rs     |-> rs,
          delta  |-> IF rs # Len(x) THEN rs - Len(x) ELSE sh.delta]

\* Mutant of q_take: subtracts only when remainder > denominator
q_take_strict(t, x, ys, yi, bit) ==
    IF t.delta > 0
    THEN [buffer |-> q_sub([t.buffer EXCEPT ![yi + 1] = BitSet(t.buffer[yi + 1], bit)],
                           x, ys, t.rs, 0, 0),
          rs     |-> t.rs]
    ELSE [buffer |-> t.buffer, rs |-> t.rs]

\* "If remainder >= denominator, add to quotient, subtract from rem".
\* t is [buffer, rs, delta]; gives [buffer, rs]
q_take(t, x, ys, yi, bit) ==
    IF t.delta >= 0
    THEN [buffer |-> q_sub([t.buffer EXCEPT ![yi + 1] = BitSet(t.buffer[yi + 1], bit)],
                           x, ys, t.rs, 0, 0),
          rs     |-> t.rs]
    ELSE [buffer |-> t.buffer, rs |-> t.rs]

\* One pass of the numerator bit loop, for bit d.bit of byte d.yi of y.
\* d is [buffer, rs, qs, yi, bit, delta]: delta is that of the pass before.
\* xread, rtop and qtop keep the highest index the passes used in x[],
\* remainder[] and quotient[], -1 for none: the shift loop uses x[ri] and
\* remainder[ri] for ri < d.rs, the carry uses x[d.rs] and remainder[d.rs]
\* (u.rs is then d.rs + 1), the subtraction remainder[ri] for ri < u.rs and
\* x[ri] for ri < xs only, and quotient[yi] gets the bit
q_next(d, u, delta) ==
    [buffer |-> u.buffer,
     xread  |-> Max(d.xread, IF u.rs > d.rs THEN d.rs ELSE d.rs - 1),
     rtop   |-> Max(d.rtop, u.rs - 1),
     qtop   |-> IF delta >= 0 THEN Max(d.qtop, d.yi) ELSE d.qtop,
     rs     |-> IF delta >= 0 THEN q_strip(u.buffer, d.ys, u.rs) ELSE u.rs,
     qs     |-> IF delta >= 0 /\ d.qs < d.yi + 1 THEN d.yi + 1 ELSE d.qs,
     ys     |-> d.ys,
     yi     |-> IF d.bit > 0 THEN d.yi ELSE d.yi - 1,
     bit    |-> IF d.bit > 0 THEN d.bit - 1 ELSE 7]

q_pass(d, t, x) == q_next(d, q_take(t, x, d.ys, d.yi, d.bit), t.delta)

q_step(d, y, x, junk) ==
    q_pass(d,
           q_carry(q_shift([buffer |-> d.buffer,
                            c      |-> BitOf(y[d.yi + 1], d.bit),
                            delta  |-> 0],
                           x, d.ys, d.rs, 0, junk),
                   x, d.ys, d.rs, junk),
           x)

RECURSIVE q_loop(_, _, _, _)
\* for (int yi = ys-1; yi >= 0; yi--) for (int bit = 7; bit >= 0; bit--)
q_loop(d, y, x, junk) ==
    IF d.yi < 0 THEN d ELSE q_loop(q_step(d, y, x, junk), y, x, junk)

\* The bytes of length len that start at C index from
Slice(buffer, from, len) == [i \in 1..len |-> buffer[from + i]]

\* quorem past the zero test: allocate, divide, build the results, free.
\* wantq / wantr: q / r is not a null pointer.
\* mem: "ok", "alloc_fail", "make_q_fail" or "make_r_fail".
\* Returns ok, what *q and *r hold afterwards (q0 / r0 if not written), the
\* error raised and the scratchpad bytes allocated and freed.
quorem_divide(y, x, ty, wantq, wantr, q0, r0, mem, junk) ==
    LET xs     == Len(x.bytes)
        ys     == Len(y.bytes)
        wbits  == wordsize(x.type)
        wbytes == (wbits + 7) \div 8
        needed == ys + xs + 1
    IN  IF mem = "alloc_fail"
        THEN [ok |-> FALSE, q |-> q0, r |-> r0, err |-> "out_of_memory",
              allocated |-> 0, freed |-> 0,
              qwritten |-> FALSE, rwritten |-> FALSE,
              xread |-> -1, rtop |-> -1, qtop |-> -1]
        ELSE LET d   == q_loop([buffer |-> Zeros(needed), rs |-> 0, qs |-> 0,
                                xread |-> -1, rtop |-> -1, qtop |-> -1,
                                ys |-> ys, yi |-> ys - 1, bit |-> 7],
                               y.bytes, x.bytes, junk)
                 qs  == IF wbits # 0 /\ d.qs > wbytes THEN wbytes ELSE d.qs
                 rs  == IF wbits # 0 /\ d.rs > wbytes THEN wbytes ELSE d.rs
                 qv  == IF mem = "make_q_fail" THEN NULL
                        ELSE make_bignum(ty, Slice(d.buffer, 0, ys), qs)
                 ok1 == IF wantq THEN Safe(qv) ELSE TRUE
                 rv  == IF mem = "make_r_fail" THEN NULL
                        ELSE make_bignum(ty, Slice(d.buffer, ys, xs + 1), rs)
                 ok2 == IF wantr /\ ok1 THEN Safe(rv) ELSE ok1
             IN  [ok |-> ok2,
                  q  |-> IF wantq THEN qv ELSE q0,
                  r  |-> IF wantr /\ ok1 THEN rv ELSE r0,
                  err |-> IF ok2 THEN "none" ELSE "out_of_memory",
                  allocated |-> needed, freed |-> needed,
                  qwritten |-> wantq, rwritten |-> wantr /\ ok1,
                  xread |-> d.xread, rtop |-> d.rtop, qtop |-> d.qtop]

\* Mutant of quorem: the divisor is tested for zero after the scratchpad
\* allocation, and the zero path returns without freeing it
quorem_late_zero_test(y, x, ty, wantq, wantr, q0, r0, mem, junk) ==
    IF is_zero(x)
    THEN [ok |-> FALSE, q |-> q0, r |-> r0, err |-> "zero_divide",
          allocated |-> Len(y.bytes) + Len(x.bytes) + 1, freed |-> 0,
          qwritten |-> FALSE, rwritten |-> FALSE,
          xread |-> -1, rtop |-> -1, qtop |-> -1]
    ELSE quorem_divide(y, x, ty, wantq, wantr, q0, r0, mem, junk)

\* quorem(yg, xg, ty, q, r)
quorem(y, x, ty, wantq, wantr, q0, r0, mem, junk) ==
    IF is_zero(x)
    THEN [ok |-> FALSE, q |-> q0, r |-> r0, err |-> "zero_divide",
          allocated |-> 0, freed |-> 0, qwritten |-> FALSE, rwritten |-> FALSE,
          xread |-> -1, rtop |-> -1, qtop |-> -1]
    ELSE quorem_divide(y, x, ty, wantq, wantr, q0, r0, mem, junk)

\* What operator/ and operator% return when an operand is null
NullOperand == [result |-> NULL, err |-> "none", allocated |-> 0, freed |-> 0,
                qwritten |-> FALSE, rwritten |-> FALSE]

\* operator/(y, x): the quotient, or null
op_div(y, x, mem, junk) ==
    IF ~Safe(x) \/ ~Safe(y) THEN NullOperand
    ELSE LET res == quorem(y, x, product_type(y.type, x.type),
                           TRUE, FALSE, NULL, NULL, mem, junk)
         IN  [result |-> res.q, err |-> res.err,
              allocated |-> res.allocated, freed |-> res.freed,
              qwritten |-> res.qwritten, rwritten |-> res.rwritten]

\* Mutant of operator%: the remainder gets the type of the product
op_mod_product_type(y, x, mem, junk) ==
    IF ~Safe(x) \/ ~Safe(y) THEN NullOperand
    ELSE LET res == quorem(y, x, product_type(y.type, x.type),
                           FALSE, TRUE, NULL, NULL, mem, junk)
         IN  [result |-> res.r, err |-> res.err,
              allocated |-> res.allocated, freed |-> res.freed,
              qwritten |-> res.qwritten, rwritten |-> res.rwritten]

\* operator%(y, x): the remainder, or null
op_mod(y, x, mem, junk) ==
    IF ~Safe(x) \/ ~Safe(y) THEN NullOperand
    ELSE LET res == quorem(y, x, y.type, FALSE, TRUE, NULL, NULL, mem, junk)
         IN  [result |-> res.r, err |-> res.err,
              allocated |-> res.allocated, freed |-> res.freed,
              qwritten |-> res.qwritten, rwritten |-> res.rwritten]

(***************************************************************************)
(* bignum::compare, bignum::opposite_type, bignum::add_sub                 *)
(***************************************************************************)
RECURSIVE cmp_bytes(_, _, _)
\* for (int i = xs - 1; !result && i >= 0; i--) result = x[i] - y[i];
cmp_bytes(x, y, i) ==
    IF i < 0 THEN 0
    ELSE IF x[i + 1] # y[i + 1] THEN x[i + 1] - y[i + 1]
    ELSE cmp_bytes(x, y, i - 1)

\* compare(xg, yg, magnitude): negative, zero or positive
compare(x, y, magnitude) ==
    IF ~magnitude /\ x.type = ID_neg_bignum /\ y.type # ID_neg_bignum THEN -1
    ELSE IF ~magnitude /\ y.type = ID_neg_bignum /\ x.type # ID_neg_bignum THEN 1
    ELSE LET bysize == Len(x.bytes) - Len(y.bytes)
             result == IF bysize # 0 THEN bysize
                       ELSE cmp_bytes(x.bytes, y.bytes, Len(x.bytes) - 1)
         IN  IF ~magnitude /\ x.type = ID_neg_bignum THEN -result ELSE result

opposite_type(type) ==
    CASE type = ID_bignum     -> ID_neg_bignum
      [] type = ID_neg_bignum -> ID_bignum
      [] OTHER                -> type

\* The carry operations: uint16_t results
add_op(x, y, c) == (x + y + (IF c # 0 THEN 1 ELSE 0)) % 65536
sub_op(x, y, c) == (x - y - (IF c # 0 THEN 1 ELSE 0)) % 65536

neg_op(x, c) == (0 - x - (IF c # 0 THEN 1 ELSE 0)) % 65536
not_op(x, c) == 255 - x
and_op(x, y, c) ==
    LET b(i) == BitOf(x, i) * BitOf(y, i)
    IN  b(0) + 2 * b(1) + 4 * b(2) + 8 * b(3) + 16 * b(4) + 32 * b(5)
        + 64 * b(6) + 128 * b(7)
or_op(x, y, c) ==
    LET b(i) == IF BitOf(x, i) + BitOf(y, i) > 0 THEN 1 ELSE 0
    IN  b(0) + 2 * b(1) + 4 * b(2) + 8 * b(3) + 16 * b(4) + 32 * b(5)
        + 64 * b(6) + 128 * b(7)
xor_op(x, y, c) ==
    LET b(i) == (BitOf(x, i) + BitOf(y, i)) % 2
    IN  b(0) + 2 * b(1) + 4 * b(2) + 8 * b(3) + 16 * b(4) + 32 * b(5)
        + 64 * b(6) + 128 * b(7)

\* op as the callers of binary<> name it
carry_op(op, x, y, c) ==
    CASE op = "add_op" -> add_op(x, y, c)
      [] op = "sub_op" -> sub_op(x, y, c)
      [] op = "and_op" -> and_op(x, y, c)
      [] op = "or_op"  -> or_op(x, y, c)
      [] op = "xor_op" -> xor_op(x, y, c)

RECURSIVE bin_loop(_, _, _, _, _, _)
\* Byte-by-byte with carry, over `needed` bytes
bin_loop(op, x, y, buffer, i, c) ==
    IF i < Len(buffer)
    THEN LET xd == IF i < Len(x) THEN x[i + 1] ELSE 0
             yd == IF i < Len(y) THEN y[i + 1] ELSE 0
             c1 == carry_op(op, xd, yd, c)
         IN  bin_loop(op, x, y, [buffer EXCEPT ![i + 1] = c1 % 256], i + 1,
                      c1 \div 256)
    ELSE buffer

\* The low `wbits` bits of the little-endian bytes
mask_bits(bytes, wbits) ==
    [i \in 1..Len(bytes) |->
        IF 8 * i <= wbits THEN bytes[i]
        ELSE IF 8 * (i - 1) >= wbits THEN 0
        ELSE bytes[i] % Pow2(wbits - 8 * (i - 1))]

\* binary<false>(op, xg, yg, ty) of bignum.h, modelled from the specification:
\* x op y byte by byte with carry, one byte wider than the wider operand,
\* truncated modulo 2^W under a word size W, high-order zeros dropped
binary(op, x, y, ty) ==
    LET wbits  == wordsize(x.type)
        wbytes == (wbits + 7) \div 8
        wide   == Max(Len(x.bytes), Len(y.bytes)) + 1
        needed == IF wbits # 0 /\ wide > wbytes THEN wbytes ELSE wide
        raw    == bin_loop(op, x.bytes, y.bytes, Zeros(needed), 0, 0)
        cut    == IF wbits # 0 THEN mask_bits(raw, wbits) ELSE raw
    IN  [type |-> ty, bytes |-> Strip(cut)]

\* Mutant of add_sub: when abs Y < abs X the result takes the type the
\* subtraction would give it, whatever issub says
add_sub_swapped_sign(y, x, issub) ==
    IF ~Safe(x) \/ ~Safe(y) THEN NULL
    ELSE LET yt == y.type
             xt == x.type
             samesgn == (xt = ID_neg_bignum) = (yt = ID_neg_bignum)
         IN  IF samesgn = issub
             THEN LET cmp == compare(y, x, TRUE)
                  IN  IF cmp >= 0
                      THEN binary("sub_op", y, x,
                                  IF cmp = 0 THEN ID_bignum
                                  ELSE IF issub THEN xt ELSE opposite_type(xt))
                      ELSE binary("sub_op", x, y, opposite_type(xt))
             ELSE binary("add_op", y, x,
                         IF issub THEN opposite_type(xt) ELSE xt)

\* add_sub(yg, xg, issub)
add_sub(y, x, issub) ==
    IF ~Safe(x) \/ ~Safe(y) THEN NULL
    ELSE LET yt == y.type
             xt == x.type
             samesgn == (xt = ID_neg_bignum) = (yt = ID_neg_bignum)
         IN  IF samesgn = issub
             THEN LET cmp == compare(y, x, TRUE)
                  IN  IF cmp >= 0
                      THEN binary("sub_op", y, x,
                                  IF cmp = 0 THEN ID_bignum
                                  ELSE IF issub THEN xt ELSE opposite_type(xt))
                      ELSE binary("sub_op", x, y,
                                  IF issub THEN opposite_type(xt) ELSE xt)
             ELSE binary("add_op", y, x,
                         IF issub THEN opposite_type(xt) ELSE xt)

(***************************************************************************)
(* bignum::pow                                                             *)
(***************************************************************************)
\* The heap's answer to the n-th multiplication of pow when the allocation of
\* the failAt-th one fails (failAt = 0: none does)
mem_at(n, failAt) == IF n = failAt THEN "alloc_fail" ELSE "ok"

\* The error slot after an operation that raised e ("none": it raised nothing)
raise(old, e) == IF e = "none" THEN old ELSE e

\* One pass of the bit loop of pow.  p is [r, y, xv, n, err]: n counts the
\* multiplications done so far, err is the last error raised
pow_step(p, more, failAt) ==
    LET odd == p.xv % 2 = 1
        m1  == op_mul(p.r, p.y, mem_at(p.n + 1, failAt))
        n1  == IF odd THEN p.n + 1 ELSE p.n
        e1  == IF odd THEN raise(p.err, m1.err) ELSE p.err
        xv1 == p.xv \div 2
        sq  == xv1 # 0 \/ more
        m2  == op_mul(p.y, p.y, mem_at(n1 + 1, failAt))
    IN  [r   |-> IF odd THEN m1.result ELSE p.r,
         y   |-> IF sq THEN m2.result ELSE p.y,
         xv  |-> xv1,
         n   |-> IF sq THEN n1 + 1 ELSE n1,
         err |-> IF sq THEN raise(e1, m2.err) ELSE e1]

RECURSIVE pow_bits(_, _, _, _)
\* for (uint bit = 0; xv && bit < 8; bit++)
pow_bits(p, bit, more, failAt) ==
    IF p.xv # 0 /\ bit < 8
    THEN pow_bits(pow_step(p, more, failAt), bit + 1, more, failAt)
    ELSE p

RECURSIVE pow_bytes(_, _, _, _)
\* for (size_t xi = 0; xi < xs; xi++)
pow_bytes(p, x, xi, failAt) ==
    IF xi < Len(x)
    THEN pow_bytes(pow_bits([p EXCEPT !.xv = x[xi + 1]], 0,
                            xi < Len(x) - 1, failAt),
                   x, xi + 1, failAt)
    ELSE p

\* pow(yr, xr): y^abs(x), as [result, err]
pow(y, x, failAt) ==
    IF ~Safe(x) \/ ~Safe(y) THEN [result |-> NULL, err |-> "none"]
    ELSE LET one == [type |-> ID_bignum, bytes |-> <<1>>]
             p   == pow_bytes([r |-> one, y |-> y, xv |-> 0, n |-> 0,
                               err |-> "none"], x.bytes, 0, failAt)
         IN  [result |-> p.r, err |-> p.err]

(***************************************************************************)
(* operator-(x), operator~(x), operator&, operator|, operator^.            *)
(*                                                                         *)
(* These read the type of an operand before any test of the pointer: on a  *)
(* null operand that read is a null dereference, whose outcome the         *)
(* language leaves open.  ub names the outcome: "trap" stops the program,  *)
(* "junk" goes on with whatever was read.                                  *)
(***************************************************************************)
UBOutcomes == {"trap", "junk"}

\* What a call leaves when it dereferenced a null operand
Dereferenced(ub) ==
    [result |-> IF ub = "trap" THEN NULL ELSE [type |-> ID_bignum, bytes |-> <<>>],
     deref  |-> TRUE,
     trap   |-> ub = "trap",
     allocated |-> 0]

\* What a call leaves when it returned normally
Returned(res, allocated) ==
    [result |-> res, deref |-> FALSE, trap |-> FALSE, allocated |-> allocated]

RECURSIVE un_loop(_, _, _, _, _)
\* Byte by byte with carry over the bytes of the buffer
un_loop(op, x, buffer, i, c) ==
    IF i < Len(buffer)
    THEN LET xd == IF i < Len(x) THEN x[i + 1] ELSE 0
             c1 == IF op = "neg_op" THEN neg_op(xd, c) ELSE not_op(xd, c)
         IN  un_loop(op, x, [buffer EXCEPT ![i + 1] = c1 % 256], i + 1,
                     c1 \div 256)
    ELSE buffer

\* unary<true>(op, xg) of bignum.h, modelled from the specification: op on
\* the stored bytes extended to the word size, truncated modulo 2^W
unary(op, x) ==
    LET wbits  == wordsize(x.type)
        wbytes == (wbits + 7) \div 8
        needed == IF wbits # 0 THEN wbytes ELSE Len(x.bytes)
        raw    == un_loop(op, x.bytes, Zeros(needed), 0, 0)
        cut    == IF wbits # 0 THEN mask_bits(raw, wbits) ELSE raw
    IN  [type |-> x.type, bytes |-> Strip(cut)]

\* operator-(xg): "object::id xt = xg->type();" comes first
op_neg(x, ub) ==
    IF ~Safe(x) THEN Dereferenced(ub)
    ELSE IF x.type = ID_bignum
    THEN Returned([type |-> ID_neg_bignum, bytes |-> x.bytes], Len(x.bytes))
    ELSE IF x.type = ID_neg_bignum
    THEN Returned([type |-> ID_bignum, bytes |-> x.bytes], Len(x.bytes))
    ELSE LET r == unary("neg_op", x) IN Returned(r, Len(r.bytes))

\* operator~(x): "object::id xt = x->type();" comes first
op_not(x, ub) ==
    IF ~Safe(x) THEN Dereferenced(ub)
    ELSE IF x.type = ID_bignum \/ x.type = ID_neg_bignum
    THEN LET r == [type  |-> ID_bignum,
                   bytes |-> IF is_zero(x) THEN <<1>> ELSE <<>>]
         IN  Returned(r, Len(r.bytes))
    ELSE LET r == unary("not_op", x) IN Returned(r, Len(r.bytes))

\* operator&, operator|, operator^ (y, x): binary<false>(op, x, y, x->type()),
\* the argument x->type() is evaluated before the call.  binary<> of bignum.h
\* is modelled from the specification: a null operand gives null
op_bitwise(op, y, x, ub) ==
    IF ~Safe(x) THEN Dereferenced(ub)
    ELSE IF ~Safe(y) THEN Returned(NULL, 0)
    ELSE LET r == binary(op, x, y, x.type) IN Returned(r, Len(r.bytes))

(***************************************************************************)
(* renderer: ~renderer, put(char), printf.  A renderer is a record of the  *)
(* fields of the class: target and saving say whether the pointer is set.  *)
(* allocated and freed count the scratchpad bytes its calls allocated and  *)
(* its destructor freed.  The operators work on w = [r, sp, ok, text]:     *)
(* the renderer, the scratchpad level, the value returned and the          *)
(* characters the sink holds.                                              *)
(***************************************************************************)
\* Stands for the length ~0U of a renderer without a fixed buffer, which
\* `written` never reaches
Unbounded == Pow2(30)

\* The characters put is given: a letter, the signs, the white space, the
\* text delimiter
Chars == {"a", "minus", "plus", "space", "newline", "tab", "quote"}

isspace(c) == c \in {"space", "newline", "tab"}

\* rt.allocate(n) on a scratchpad of ScratchSize bytes with sp bytes in use
can_allocate(sp, n) == sp + n <= ScratchSize

\* The three ways put stores the character c: file, buffer, scratchpad.
\* w.text is what the sink has received from put
put_store(w, c) ==
    IF w.r.saving
    THEN [w EXCEPT !.r.written = @ + 1, !.text = Append(@, c)]
    ELSE IF w.r.target
    THEN [w EXCEPT !.r.written = @ + 1, !.text = Append(@, c)]
    ELSE IF ~can_allocate(w.sp, 1)
    THEN [w EXCEPT !.ok = FALSE]
    ELSE [w EXCEPT !.r.written = @ + 1, !.r.allocated = @ + 1,
                   !.sp = @ + 1, !.text = Append(@, c)]

\* "Render flat for stack display: collect all spaces in one".  Gives the
\* character to go on with, and done when put returns true at once
put_flat(w, c) ==
    IF w.r.flat
    THEN IF isspace(c)
         THEN IF w.r.space \/ w.r.cr
              THEN [w |-> w, c |-> c, done |-> TRUE]
              ELSE [w |-> [w EXCEPT !.r.space = TRUE], c |-> "space",
                    done |-> FALSE]
         ELSE [w |-> [w EXCEPT !.r.space = FALSE], c |-> c, done |-> FALSE]
    ELSE [w |-> w, c |-> c, done |-> FALSE]

\* The end of put, after the character is stored and the tabs are put
put_end(w, c) ==
    LET r1 == IF c = "newline" THEN [w.r EXCEPT !.cr = TRUE]
              ELSE IF ~isspace(c) THEN [w.r EXCEPT !.cr = FALSE]
              ELSE w.r
        r2 == IF c = "quote" THEN [r1 EXCEPT !.txt = ~r1.txt] ELSE r1
    IN  [w EXCEPT !.r = r2, !.ok = TRUE]

RECURSIVE put(_, _)
RECURSIVE put_tabs(_, _)
RECURSIVE put_char(_, _)

\* for (uint i = 0; i < tabs; i++) if (!put('\t')) return false;
put_tabs(w, i) ==
    IF i < w.r.tabs
    THEN LET t == put([w EXCEPT !.ok = TRUE], "tab")
         IN  IF t.ok THEN put_tabs(t, i + 1) ELSE t
    ELSE [w EXCEPT !.ok = TRUE]

\* put from the test of a pending newline on
put_char(w, c) ==
    LET n == IF ~isspace(c) /\ w.r.nl
             THEN put([w EXCEPT !.r.nl = FALSE], "newline")
             ELSE [w EXCEPT !.ok = TRUE]
        s == IF n.ok THEN put_store(n, c) ELSE n
        t == IF s.ok /\ c = "newline"
             THEN IF ~s.r.txt
                  THEN put_tabs([s EXCEPT !.r.nl = FALSE], 0)
                  ELSE [s EXCEPT !.r.nl = FALSE]
             ELSE s
    IN  IF t.ok THEN put_end(t, c) ELSE t

\* put(char c)
put(w, c) ==
    LET w1 == IF w.r.sign
              THEN IF c # "minus" /\ c # "plus"
                   THEN [put([w EXCEPT !.r.sign = FALSE], "plus")
                            EXCEPT !.ok = TRUE]
                   ELSE [w EXCEPT !.r.sign = FALSE]
              ELSE w
    IN  IF w1.r.written >= w1.r.length
        THEN [w1 EXCEPT !.ok = FALSE]
        ELSE LET f == put_flat(w1, c)
             IN  IF f.done THEN [f.w EXCEPT !.ok = TRUE]
                 ELSE IF f.c = "space" /\ (f.w.r.cr \/ f.w.r.nl)
                 THEN [f.w EXCEPT !.r.cr = FALSE, !.ok = TRUE]
                 ELSE put_char(f.w, f.c)

\* printf(format, ...) when the format gives `size` characters; wrote is
\* what saving->write returns.  ok is not used: printf returns a size
printf(w, size, wrote) ==
    IF w.r.saving
    THEN IF size > 0 /\ wrote THEN [w EXCEPT !.r.written = @ + size] ELSE w
    ELSE IF w.r.target
    THEN IF w.r.written >= w.r.length THEN w
         ELSE [w EXCEPT !.r.written = @ + size]
    ELSE IF ~can_allocate(w.sp, size) THEN w
    ELSE [w EXCEPT !.r.written = @ + size, !.r.allocated = @ + size,
                   !.sp = @ + size]

\* ~renderer()
destroy(w) ==
    IF ~w.r.target
    THEN [w EXCEPT !.r.alive = FALSE, !.r.freed = @ + w.r.written,
                   !.sp = @ - w.r.written]
    ELSE [w EXCEPT !.r.alive = FALSE]

\* The constructors of renderer.h, modelled from the three sink kinds of the
\* specification: a buffer of `length` bytes, the scratchpad, a file
make_renderer(kind, length, flat) ==
    [alive     |-> TRUE,
     target    |-> kind = "buffer",
     saving    |-> kind = "file",
     length    |-> IF kind = "buffer" THEN length ELSE Unbounded,
     written   |-> 0,
     sign      |-> FALSE,
     flat      |-> flat,
     space     |-> FALSE,
     cr        |-> FALSE,
     nl        |-> FALSE,
     txt       |-> FALSE,
     tabs      |-> 0,
     allocated |-> 0,
     freed     |-> 0]

\* The three sinks of a renderer
SinkKinds == {"buffer", "scratchpad", "file"}

\* A call on the renderer r with the scratchpad at level sp
Call(r, sp) == [r |-> r, sp |-> sp, ok |-> TRUE, text |-> <<>>]

\* No renderer at all
NoRenderer == [make_renderer("buffer", 0, FALSE) EXCEPT !.alive = FALSE]

(***************************************************************************)
(* render_num and the RENDER_BODY of the bignum types.  A format is the    *)
(* sequence of its characters; the digits are the characters "0" .. "F".   *)
(***************************************************************************)
DigitChars == <<"0", "1", "2", "3", "4", "5", "6", "7", "8", "9",
                "A", "B", "C", "D", "E", "F">>

\* The subscript digits of the fancy base suffix
fancy_base_digits == <<"sub0", "sub1", "sub2", "sub3", "sub4",
                       "sub5", "sub6", "sub7", "sub8", "sub9">>

\* Mutant of digit_char: the letters start at 'A' for the digit 11
digit_char_from_eleven(digit) ==
    IF digit < 10 THEN DigitChars[digit + 1] ELSE DigitChars[digit]

\* char c = (digit < 10) ? digit + '0' : digit + ('A' - 10);
digit_char(digit) == DigitChars[digit + 1]

RECURSIVE value_uint(_)
\* value<uint>() of bignum.h: the magnitude as a number
value_uint(bytes) ==
    IF Len(bytes) = 0 THEN 0
    ELSE bytes[1] + 256 * value_uint([i \in 1..(Len(bytes) - 1) |-> bytes[i + 1]])

\* rt.make<bignum>(ID_bignum, base), for a base below 256
make_base(base) == [type |-> ID_bignum, bytes |-> <<base>>]

\* The separator after a digit, with sep++ for ++sep
render_gap_late(w, q, sep, spacing, space) ==
    IF is_zero(q) THEN [w |-> w, n |-> q, sep |-> sep, more |-> FALSE]
    ELSE IF sep = spacing
    THEN [w |-> put(w, space), n |-> q, sep |-> 0, more |-> TRUE]
    ELSE [w |-> w, n |-> q, sep |-> sep + 1, more |-> TRUE]

\* The separator after a digit: "if (!n->is_zero() && ++sep == spacing)"
render_gap(w, q, sep, spacing, space) ==
    IF is_zero(q) THEN [w |-> w, n |-> q, sep |-> sep, more |-> FALSE]
    ELSE IF sep + 1 = spacing
    THEN [w |-> put(w, space), n |-> q, sep |-> 0, more |-> TRUE]
    ELSE [w |-> w, n |-> q, sep |-> sep + 1, more |-> TRUE]

\* The digit of a division that gave qr: put it, go on with the quotient
render_emit(d, qr, spacing, space) ==
    IF ~qr.ok THEN [d EXCEPT !.more = FALSE]
    ELSE render_gap(put(d.w, digit_char(value_uint(qr.r.bytes))),
                    qr.q, d.sep, spacing, space)

\* One pass of "Keep dividing by the base until we get 0".  d is
\* [w, n, sep, more]: the call, the number left, the digits since the last
\* separator, and whether the loop goes on
render_digit(d, b, spacing, space, mem, junk) ==
    render_emit(d, quorem(d.n, b, ID_bignum, TRUE, TRUE, NULL, NULL, mem, junk),
                spacing, space)

RECURSIVE render_digits(_, _, _, _, _, _)
\* do { ... } while (!n->is_zero());
render_digits(d, b, spacing, space, mem, junk) ==
    IF d.more
    THEN render_digits(render_digit(d, b, spacing, space, mem, junk),
                       b, spacing, space, mem, junk)
    ELSE d

\* utf8_reverse(dest + findex, dest + size, false): the bytes from findex on
\* in the opposite order
utf8_reverse(text, findex) ==
    [i \in 1..Len(text) |->
        IF i <= findex THEN text[i] ELSE text[Len(text) + findex + 1 - i]]

\* "Add suffix if there is one"
render_suffix(w, base, fmt, fancy_base) ==
    IF fancy_base
    THEN LET w1 == IF base \div 10 # 0
                   THEN put(w, fancy_base_digits[(base \div 10) + 1])
                   ELSE w
         IN  put(w1, fancy_base_digits[(base % 10) + 1])
    ELSE IF Len(fmt) > 1 THEN put(w, fmt[2])
    ELSE w

\* render_num from "Get denominator for the base" on: w has the prefix,
\* findex is its size
render_from(w, findex, num, base, fmt, fancy_base, spacing, mem, junk) ==
    render_suffix([render_digits([w |-> w, n |-> num, sep |-> 0,
                                  more |-> TRUE],
                                 make_base(base), spacing, "space",
                                 mem, junk).w
                      EXCEPT !.text = utf8_reverse(@, findex)],
                  base, fmt, fancy_base)

\* render_num once the prefix is put
render_prefixed(w, num, base, fmt, raw, spacing, mem, junk) ==
    render_from(w, w.r.written, num, base, fmt,
                ~raw /\ Len(fmt) > 0 /\ fmt[1] = "hash" /\ w.r.flat,
                IF raw THEN 0 ELSE spacing, mem, junk)

\* render_num on a renderer that is not a file
render_mem(w, num, base, fmt, raw, spacing, mem, junk) ==
    render_prefixed(IF Len(fmt) > 0 THEN put(w, fmt[1]) ELSE w,
                    num, base, fmt, raw, spacing, mem, junk)

RECURSIVE put_all(_, _, _)
\* r.put(text, size)
put_all(w, text, i) ==
    IF i <= Len(text) THEN put_all(put(w, text[i]), text, i + 1) ELSE w

\* The end of render_num to a file: the text of tmp is put, tmp destroyed
render_copy(w, tmp) ==
    [put_all(w, tmp.text, 1) EXCEPT !.sp = destroy(tmp).sp]

\* render_num(r, num, base, fmt)
render_num(w, num, base, fmt, spacing, mem, junk) ==
    IF w.r.saving
    THEN render_copy(w, render_mem(Call(make_renderer("scratchpad", 0,
                                                      w.r.flat), w.sp),
                                   num, base, fmt, TRUE, spacing, mem, junk))
    ELSE render_mem(w, num, base, fmt, FALSE, spacing, mem, junk)

(***************************************************************************)
(* bignum::bignum(id, integer_g) and bignum::as_integer.  A small integer  *)
(* is a record [type, value]: value is the 64-bit magnitude as its eight   *)
(* little-endian bytes.  Its payload is the LEB128 encoding of the value,  *)
(* a sequence of bytes with the high bit set on all but the last.          *)
(***************************************************************************)
\* The null integer pointer
NULLINT == [type |-> "nullptr", value |-> <<>>]

\* Bit i of a 64-bit magnitude
ularge_bit(value, i) ==
    IF i < 64 THEN BitOf(value[(i \div 8) + 1], i % 8) ELSE 0

\* The number of bits of a 64-bit magnitude
ularge_bits(value) ==
    IF \A i \in 0..63 : ularge_bit(value, i) = 0 THEN 0
    ELSE 1 + CHOOSE i \in 0..63 :
                /\ ularge_bit(value, i) = 1
                /\ \A j \in (i + 1)..63 : ularge_bit(value, j) = 0

\* Bits 7j .. 7j+6 of a 64-bit magnitude as a number
leb128_group(value, j) ==
    ularge_bit(value, 7 * j) + 2 * ularge_bit(value, 7 * j + 1)
    + 4 * ularge_bit(value, 7 * j + 2) + 8 * ularge_bit(value, 7 * j + 3)
    + 16 * ularge_bit(value, 7 * j + 4) + 32 * ularge_bit(value, 7 * j + 5)
    + 64 * ularge_bit(value, 7 * j + 6)

\* value->payload(): the LEB128 bytes of an integer (integer.h)
integer_payload(value) ==
    LET n == Max(1, (ularge_bits(value) + 6) \div 7)
    IN  [j \in 1..n |-> leb128_group(value, j - 1)
                        + (IF j < n THEN 128 ELSE 0)]

\* bytesize(value): the bytes the magnitude of an integer takes (bignum.h)
bytesize(value) == (ularge_bits(value) + 7) \div 8

\* One pass of the loop of the constructor over the payload byte b.  k is
\* [out, c, bits]: the bytes written at p, the bits not yet written
leb_step(k, b) ==
    LET c1    == k.c + (b % 128) * Pow2(k.bits)
        bits1 == k.bits + 7
    IN  IF bits1 >= 8
        THEN [out |-> Append(k.out, c1 % 256), c |-> c1 \div 256,
              bits |-> bits1 - 8]
        ELSE [out |-> k.out, c |-> c1, bits |-> bits1]

RECURSIVE leb_loop(_, _, _)
\* do { byte b = *q++; more = b & 0x80; ... } while (more);
leb_loop(k, payload, qi) ==
    IF k.bits >= 0 /\ payload[qi] >= 128
    THEN leb_loop(leb_step(k, payload[qi]), payload, qi + 1)
    ELSE leb_step(k, payload[qi])

\* The bytes written at p: the loop, then "if (c) *p++ = byte(c);"
leb_written(k) == IF k.c # 0 THEN Append(k.out, k.c % 256) ELSE k.out

\* The payload of the text object after the constructor: `size` bytes
\* copied from the integer's payload, then overwritten from the start.
\* overrun: bytes were written past the end of the object
leb_result(type, size, copied, written) ==
    [type    |-> type,
     bytes   |-> [i \in 1..size |->
                     IF i <= Len(written) THEN written[i] ELSE copied[i]],
     overrun |-> Len(written) > size]

\* bignum(type, value)
bignum_from_integer(type, value) ==
    IF bytesize(value) = 0
    THEN [type |-> type, bytes |-> <<>>, overrun |-> FALSE]
    ELSE leb_result(type, bytesize(value), integer_payload(value),
                    leb_written(leb_loop([out |-> <<>>, c |-> 0, bits |-> 0],
                                         integer_payload(value), 1)))

\* value |= ularge(p[i]) << (i * 8), for the size bytes of p
ularge_of(bytes) == [i \in 1..8 |-> IF i <= Len(bytes) THEN bytes[i] ELSE 0]

\* Mutant of as_integer: a magnitude of eight bytes is refused too
as_integer_below_eight(o, mem) ==
    IF Len(o.bytes) >= 8 THEN NULLINT
    ELSE IF mem # "ok" THEN NULLINT
    ELSE [type  |-> IF o.type = ID_neg_bignum THEN ID_neg_integer
                    ELSE ID_integer,
          value |-> ularge_of(o.bytes)]

\* as_integer().  mem: whether rt.make<integer> gets its memory
as_integer(o, mem) ==
    IF Len(o.bytes) > 8 THEN NULLINT
    ELSE IF mem # "ok" THEN NULLINT
    ELSE [type  |-> IF o.type = ID_neg_bignum THEN ID_neg_integer
                    ELSE ID_integer,
          value |-> ularge_of(o.bytes)]

(***************************************************************************)
(* The state machine of the arithmetic kernels: one call on a fresh        *)
(* runtime, with the operands and the settings drawn by Init.              *)
(***************************************************************************)
\* Magnitudes 0..MaxSmall, one byte each (no byte for zero)
SmallMags == {IF n = 0 THEN <<>> ELSE <<n>> : n \in 0..MaxSmall}

\* Multi-byte magnitudes and single bytes with the high bit set: 0xEF, 0xFF,
\* 0x17B, 0x100, 0x101, 0xFFFF
SpecialMags == {<<239>>, <<255>>, <<123, 1>>, <<0, 1>>, <<1, 1>>, <<255, 255>>}

Magnitudes == SmallMags \cup SpecialMags

SignedTypes == {ID_bignum, ID_neg_bignum}

\* Both operands signed, or both based
TypePairs == (SignedTypes \X SignedTypes) \cup {<<ID_based_bignum, ID_based_bignum>>}

WordSizes  == {8, 12, 16}
MaxBignums == {16, 32}

\* The bytes a read past the divisor may find
JunkBytes == {0, 255}

\* The runtime after its construction: an empty stack, no editor
rt_init == [stack |-> <<>>, editor |-> <<>>]

\* The number of command lines the history keeps
HISTORY == 2

\* The number of help topics the history of topics keeps
NUM_TOPICS == 1

\* The number of entries of menuStack, the history of the menus (HISTORY in
\* the source; the history of the command lines is bounded apart)
MenuHistory == 4

\* user_interface::user_interface(): the fields after construction; a
\* history slot with no command line is empty, an entry of menuStack with
\* no menu is "object" (menu::ID_object); editing is <<obj>> for the
\* object taken from the stack to be edited, <<>> for nullptr
ui_init ==
    [help |-> Unbounded, line |-> 0, topic |-> 0, topics_history |-> 0,
     cursor |-> 0, select |-> Unbounded, searching |-> Unbounded,
     mode |-> "STACK", last |-> 0, editing |-> <<>>, cmdIndex |-> 0,
     shift |-> FALSE, xshift |-> FALSE, alpha |-> FALSE,
     transalpha |-> FALSE, lowercase |-> FALSE, repeat |-> FALSE,
     longpress |-> FALSE, follow |-> FALSE, adjustSeps |-> FALSE,
     graphics |-> FALSE, command |-> "nullptr", evaluating |-> 0,
     history |-> [i \in 0..(HISTORY - 1) |-> <<>>],
     topics |-> [i \in 0..(NUM_TOPICS - 1) |-> 0],
     menuStack |-> [i \in 0..(MenuHistory - 1) |-> "object"],
     menuPage |-> 0]

\* The runtime, the user interface and the screen of a program that has
\* just started
Idle ==
    /\ rt = rt_init
    /\ ui = ui_init
    /\ Screen = <<>>

NoOp == [op |-> "none", result |-> NULL, rem |-> NULL, ok |-> TRUE,
         err |-> "none", allocated |-> 0, freed |-> 0,
         qwritten |-> FALSE, rwritten |-> FALSE, mem |-> "ok",
         text |-> <<>>, base |-> 0, fmt |-> <<>>, spacing |-> 0,
         room |-> TRUE, from |-> NULLINT, int |-> NULLINT,
         overrun |-> FALSE, deref |-> FALSE, trap |-> FALSE,
         name |-> "", id |-> "none", config |-> FALSE,
         key |-> 0, repeating |-> FALSE, ran |-> <<>>, parsed |-> "none",
         pos |-> -1, reopened |-> FALSE, loaded |-> "none", plane |-> 0,
         ended |-> "none", pending |-> "none", prev |-> 0, was |-> 0,
         before |-> <<>>, recalled |-> "none", typed |-> <<>>,
         saved |-> FALSE, menu |-> "object", page |-> 0,
         xread |-> -1, rtop |-> -1, qtop |-> -1,
         events |-> 0]

InitArith ==
    /\ \E t \in TypePairs, ym \in Magnitudes, xm \in Magnitudes :
          /\ yg = [type |-> t[1], bytes |-> ym]
          /\ xg = [type |-> t[2], bytes |-> xm]
    /\ Settings \in [wordsize : WordSizes, maxbignum : MaxBignums]
    /\ error = "none"
    /\ scratch = 0
    /\ last = NoOp
    /\ rnd = NoRenderer
    /\ Idle

\* What an operation leaves behind: the error slot, the scratchpad level
Effect(res) ==
    /\ error' = raise(error, res.err)
    /\ scratch' = scratch + res.allocated - res.freed
    /\ UNCHANGED <<yg, xg, Settings, rnd, rt, ui, Screen>>

\* y * x
Multiply ==
    /\ last.op = "none"
    /\ \E mem \in {"ok", "alloc_fail", "make_fail"} :
          \E res \in {op_mul(yg, xg, mem)} :
              /\ last' = [NoOp EXCEPT !.op = "mul", !.result = res.result,
                             !.ok = Safe(res.result), !.err = res.err,
                             !.allocated = res.allocated, !.freed = res.freed,
                             !.mem = mem]
              /\ Effect(res)

\* quorem(y, x, ty, &q, &r) with both outputs asked for
QuoRem ==
    /\ last.op = "none"
    /\ \E mem \in {"ok", "alloc_fail", "make_q_fail", "make_r_fail"},
          junk \in JunkBytes :
          \E res \in {quorem(yg, xg, product_type(yg.type, xg.type),
                            TRUE, TRUE, NULL, NULL, mem, junk)} :
              /\ last' = [NoOp EXCEPT !.op = "quorem", !.result = res.q,
                             !.rem = res.r, !.ok = res.ok, !.err = res.err,
                             !.allocated = res.allocated, !.freed = res.freed,
                             !.qwritten = res.qwritten,
                             !.rwritten = res.rwritten, !.mem = mem,
                             !.xread = res.xread, !.rtop = res.rtop,
                             !.qtop = res.qtop]
              /\ Effect(res)

\* y / x
Divide ==
    /\ last.op = "none"
    /\ \E mem \in {"ok", "alloc_fail", "make_q_fail"}, junk \in JunkBytes :
          \E res \in {op_div(yg, xg, mem, junk)} :
              /\ last' = [NoOp EXCEPT !.op = "div", !.result = res.result,
                             !.ok = Safe(res.result), !.err = res.err,
                             !.allocated = res.allocated, !.freed = res.freed,
                             !.qwritten = res.qwritten,
                             !.rwritten = res.rwritten, !.mem = mem]
              /\ Effect(res)

\* y % x
Remainder ==
    /\ last.op = "none"
    /\ \E mem \in {"ok", "alloc_fail", "make_r_fail"}, junk \in JunkBytes :
          \E res \in {op_mod(yg, xg, mem, junk)} :
              /\ last' = [NoOp EXCEPT !.op = "mod", !.result = res.result,
                             !.ok = Safe(res.result), !.err = res.err,
                             !.allocated = res.allocated, !.freed = res.freed,
                             !.qwritten = res.qwritten,
                             !.rwritten = res.rwritten, !.mem = mem]
              /\ Effect(res)

\* y + x
Add ==
    /\ last.op = "none"
    /\ \E res \in {add_sub(yg, xg, FALSE)} :
           /\ last' = [NoOp EXCEPT !.op = "add", !.result = res,
                          !.ok = Safe(res)]
           /\ UNCHANGED <<yg, xg, Settings, error, scratch, rnd, rt, ui, Screen>>

\* y - x
Subtract ==
    /\ last.op = "none"
    /\ \E res \in {add_sub(yg, xg, TRUE)} :
           /\ last' = [NoOp EXCEPT !.op = "sub", !.result = res,
                          !.ok = Safe(res)]
           /\ UNCHANGED <<yg, xg, Settings, error, scratch, rnd, rt, ui, Screen>>

\* pow(y, x)
Power ==
    /\ last.op = "none"
    /\ \E failAt \in 0..MaxFail :
          \E res \in {pow(yg, xg, failAt)} :
              /\ last' = [NoOp EXCEPT !.op = "pow", !.result = res.result,
                             !.ok = Safe(res.result), !.err = res.err,
                             !.mem = IF failAt = 0 THEN "ok" ELSE "alloc_fail"]
              /\ error' = raise(error, res.err)
              /\ UNCHANGED <<yg, xg, Settings, scratch, rnd, rt, ui, Screen>>

NextArith ==
    \/ Multiply
    \/ QuoRem
    \/ Divide
    \/ Remainder
    \/ Add
    \/ Subtract
    \/ Power

Init == InitArith

Next == NextArith

Spec == Init /\ [][Next]_vars

(***************************************************************************)
(* The state machine of the operators on null operands: one call of an     *)
(* operator with at least one null operand, as happens after an earlier    *)
(* operation failed.                                                       *)
(***************************************************************************)
Operands ==
    {[type |-> t, bytes |-> m] :
        t \in {ID_bignum, ID_neg_bignum, ID_based_bignum}, m \in Magnitudes}

InitNull ==
    /\ yg \in Operands \cup {NULL}
    /\ xg \in Operands \cup {NULL}
    /\ ~Safe(yg) \/ ~Safe(xg)
    /\ Settings \in [wordsize : WordSizes, maxbignum : MaxBignums]
    /\ error = "none"
    /\ scratch = 0
    /\ last = NoOp
    /\ rnd = NoRenderer
    /\ Idle

\* What a call of a unary or bitwise operator leaves behind
NullEffect(op, res, ub) ==
    /\ last' = [NoOp EXCEPT !.op = op, !.result = res.result,
                    !.ok = Safe(res.result), !.allocated = res.allocated,
                    !.deref = res.deref, !.trap = res.trap,
                    !.mem = IF res.deref THEN ub ELSE "ok"]
    /\ scratch' = scratch + res.allocated
    /\ UNCHANGED <<yg, xg, Settings, error, rnd, rt, ui, Screen>>

\* -x
Negate ==
    /\ last.op = "none"
    /\ \E ub \in UBOutcomes : NullEffect("neg", op_neg(xg, ub), ub)

\* ~x
Not ==
    /\ last.op = "none"
    /\ \E ub \in UBOutcomes : NullEffect("not", op_not(xg, ub), ub)

\* y & x
And ==
    /\ last.op = "none"
    /\ \E ub \in UBOutcomes :
          NullEffect("and", op_bitwise("and_op", yg, xg, ub), ub)

\* y | x
Or ==
    /\ last.op = "none"
    /\ \E ub \in UBOutcomes :
          NullEffect("or", op_bitwise("or_op", yg, xg, ub), ub)

\* y ^ x
Xor ==
    /\ last.op = "none"
    /\ \E ub \in UBOutcomes :
          NullEffect("xor", op_bitwise("xor_op", yg, xg, ub), ub)

NextNull ==
    \/ Multiply
    \/ Divide
    \/ Remainder
    \/ Add
    \/ Subtract
    \/ Power
    \/ Negate
    \/ Not
    \/ And
    \/ Or
    \/ Xor

SpecNull == InitNull /\ [][NextNull]_vars

(***************************************************************************)
(* ids.tbl: the table of the object kinds and commands, in the order of    *)
(* the file.  An entry is ID(id), CMD(id), MENU(id), NAMED(id, name) or    *)
(* OP(id, name); fixed marks the entries under CONFIG_FIXED_BASED_OBJECTS. *)
(* A character outside ASCII is written {U+xxxx}.                          *)
(***************************************************************************)
ids_tbl ==
    <<
       [id |-> "object", kind |-> "ID", name |-> "", fixed |-> FALSE],
       [id |-> "directory", kind |-> "ID", name |-> "", fixed |-> FALSE],
       [id |-> "text", kind |-> "ID", name |-> "", fixed |-> FALSE],
       [id |-> "list", kind |-> "ID", name |-> "", fixed |-> FALSE],
       [id |-> "program", kind |-> "ID", name |-> "", fixed |-> FALSE],
       [id |-> "block", kind |-> "ID", name |-> "", fixed |-> FALSE],
       [id |-> "array", kind |-> "ID", name |-> "", fixed |-> FALSE],
       [id |-> "menu", kind |-> "ID", name |-> "", fixed |-> FALSE],
       [id |-> "locals", kind |-> "ID", name |-> "", fixed |-> FALSE],
       [id |-> "local", kind |-> "ID", name |-> "", fixed |-> FALSE],
       [id |-> "symbol", kind |-> "ID", name |-> "", fixed |-> FALSE],
       [id |-> "equation", kind |-> "ID", name |-> "", fixed |-> FALSE],
       [id |-> "rectangular", kind |-> "ID", name |-> "", fixed |-> FALSE],
       [id |-> "polar", kind |-> "ID", name |-> "", fixed |-> FALSE],
       [id |-> "hex_integer", kind |-> "ID", name |-> "", fixed |-> TRUE],
       [id |-> "dec_integer", kind |-> "ID", name |-> "", fixed |-> TRUE],
       [id |-> "oct_integer", kind |-> "ID", name |-> "", fixed |-> TRUE],
       [id |-> "bin_integer", kind |-> "ID", name |-> "", fixed |-> TRUE],
       [id |-> "based_integer", kind |-> "ID", name |-> "", fixed |-> FALSE],
       [id |-> "hex_bignum", kind |-> "ID", name |-> "", fixed |-> TRUE],
       [id |-> "dec_bignum", kind |-> "ID", name |-> "", fixed |-> TRUE],
       [id |-> "oct_bignum", kind |-> "ID", name |-> "", fixed |-> TRUE],
       [id |-> "bin_bignum", kind |-> "ID", name |-> "", fixed |-> TRUE],
       [id |-> "based_bignum", kind |-> "ID", name |-> "", fixed |-> FALSE],
       [id |-> "bignum", kind |-> "ID", name |-> "", fixed |-> FALSE],
       [id |-> "neg_bignum", kind |-> "ID", name |-> "", fixed |-> FALSE],
       [id |-> "integer", kind |-> "ID", name |-> "", fixed |-> FALSE],
       [id |-> "neg_integer", kind |-> "ID", name |-> "", fixed |-> FALSE],
       [id |-> "fraction", kind |-> "ID", name |-> "", fixed |-> FALSE],
       [id |-> "neg_fraction", kind |-> "ID", name |-> "", fixed |-> FALSE],
       [id |-> "big_fraction", kind |-> "ID", name |-> "", fixed |-> FALSE],
       [id |-> "neg_big_fraction", kind |-> "ID", name |-> "", fixed |-> FALSE],
       [id |-> "decimal32", kind |-> "ID", name |-> "", fixed |-> FALSE],
       [id |-> "decimal64", kind |-> "ID", name |-> "", fixed |-> FALSE],
       [id |-> "decimal128", kind |-> "ID", name |-> "", fixed |-> FALSE],
       [id |-> "comment", kind |-> "ID", name |-> "", fixed |-> FALSE],
       [id |-> "grob", kind |-> "ID", name |-> "", fixed |-> FALSE],
       [id |-> "Drop", kind |-> "CMD", name |-> "Drop", fixed |-> FALSE],
       [id |-> "Drop2", kind |-> "CMD", name |-> "Drop2", fixed |-> FALSE],
       [id |-> "DropN", kind |-> "CMD", name |-> "DropN", fixed |-> FALSE],
       [id |-> "Dup", kind |-> "NAMED", name |-> "Duplicate", fixed |-> FALSE],
       [id |-> "Dup2", kind |-> "NAMED", name |-> "Duplicate2", fixed |-> FALSE],
       [id |-> "DupN", kind |-> "NAMED", name |-> "DuplicateN", fixed |-> FALSE],
       [id |-> "Swap", kind |-> "CMD", name |-> "Swap", fixed |-> FALSE],
       [id |-> "Over", kind |-> "CMD", name |-> "Over", fixed |-> FALSE],
       [id |-> "Pick", kind |-> "CMD", name |-> "Pick", fixed |-> FALSE],
       [id |-> "Rot", kind |-> "CMD", name |-> "Rot", fixed |-> FALSE],
       [id |-> "Roll", kind |-> "CMD", name |-> "Roll", fixed |-> FALSE],
       [id |-> "RollD", kind |-> "NAMED", name |-> "RollDown", fixed |-> FALSE],
       [id |-> "Eval", kind |-> "NAMED", name |-> "Evaluate", fixed |-> FALSE],
       [id |-> "Sto", kind |-> "NAMED", name |-> "Store", fixed |-> FALSE],
       [id |-> "Rcl", kind |-> "NAMED", name |-> "Recall", fixed |-> FALSE],
       [id |-> "True", kind |-> "CMD", name |-> "True", fixed |-> FALSE],
       [id |-> "False", kind |-> "CMD", name |-> "False", fixed |-> FALSE],
       [id |-> "ToText", kind |-> "NAMED", name |-> "{U+2192}Text", fixed |-> FALSE],
       [id |-> "pi", kind |-> "NAMED", name |-> "{U+03C0}", fixed |-> FALSE],
       [id |-> "ImaginaryUnit", kind |-> "NAMED", name |-> "{U+2148}", fixed |-> FALSE],
       [id |-> "add", kind |-> "OP", name |-> "+", fixed |-> FALSE],
       [id |-> "sub", kind |-> "OP", name |-> "-", fixed |-> FALSE],
       [id |-> "mul", kind |-> "OP", name |-> "{U+00D7}", fixed |-> FALSE],
       [id |-> "div", kind |-> "OP", name |-> "{U+00F7}", fixed |-> FALSE],
       [id |-> "mod", kind |-> "CMD", name |-> "mod", fixed |-> FALSE],
       [id |-> "rem", kind |-> "CMD", name |-> "rem", fixed |-> FALSE],
       [id |-> "neg", kind |-> "NAMED", name |-> "Negate", fixed |-> FALSE],
       [id |-> "inv", kind |-> "NAMED", name |-> "x{U+207B}{U+00B9}", fixed |-> FALSE],
       [id |-> "sq", kind |-> "NAMED", name |-> "x{U+00B2}", fixed |-> FALSE],
       [id |-> "cubed", kind |-> "NAMED", name |-> "x{U+00B3}", fixed |-> FALSE],
       [id |-> "sqrt", kind |-> "NAMED", name |-> "{U+221A}", fixed |-> FALSE],
       [id |-> "abs", kind |-> "NAMED", name |-> "norm", fixed |-> FALSE],
       [id |-> "And", kind |-> "OP", name |-> "and", fixed |-> FALSE],
       [id |-> "Or", kind |-> "OP", name |-> "or", fixed |-> FALSE],
       [id |-> "Xor", kind |-> "OP", name |-> "xor", fixed |-> FALSE],
       [id |-> "NAnd", kind |-> "OP", name |-> "nand", fixed |-> FALSE],
       [id |-> "NOr", kind |-> "OP", name |-> "nor", fixed |-> FALSE],
       [id |-> "Implies", kind |-> "OP", name |-> "implies", fixed |-> FALSE],
       [id |-> "Equiv", kind |-> "OP", name |-> "equiv", fixed |-> FALSE],
       [id |-> "Excludes", kind |-> "OP", name |-> "excludes", fixed |-> FALSE],
       [id |-> "Not", kind |-> "OP", name |-> "not", fixed |-> FALSE],
       [id |-> "same", kind |-> "CMD", name |-> "same", fixed |-> FALSE],
       [id |-> "TestSame", kind |-> "NAMED", name |-> "==", fixed |-> FALSE],
       [id |-> "TestLT", kind |-> "NAMED", name |-> "<", fixed |-> FALSE],
       [id |-> "TestEQ", kind |-> "NAMED", name |-> "=", fixed |-> FALSE],
       [id |-> "TestGT", kind |-> "NAMED", name |-> ">", fixed |-> FALSE],
       [id |-> "TestLE", kind |-> "NAMED", name |-> "{U+2264}", fixed |-> FALSE],
       [id |-> "TestNE", kind |-> "NAMED", name |-> "{U+2260}", fixed |-> FALSE],
       [id |-> "TestGE", kind |-> "NAMED", name |-> "{U+2265}", fixed |-> FALSE],
       [id |-> "asin", kind |-> "NAMED", name |-> "sin{U+207B}{U+00B9}", fixed |-> FALSE],
       [id |-> "acos", kind |-> "NAMED", name |-> "cos{U+207B}{U+00B9}", fixed |-> FALSE],
       [id |-> "atan", kind |-> "NAMED", name |-> "tan{U+207B}{U+00B9}", fixed |-> FALSE],
       [id |-> "sin", kind |-> "CMD", name |-> "sin", fixed |-> FALSE],
       [id |-> "cos", kind |-> "CMD", name |-> "cos", fixed |-> FALSE],
       [id |-> "tan", kind |-> "CMD", name |-> "tan", fixed |-> FALSE],
       [id |-> "asinh", kind |-> "NAMED", name |-> "sinh{U+207B}{U+00B9}", fixed |-> FALSE],
       [id |-> "acosh", kind |-> "NAMED", name |-> "cosh{U+207B}{U+00B9}", fixed |-> FALSE],
       [id |-> "atanh", kind |-> "NAMED", name |-> "tanh{U+207B}{U+00B9}", fixed |-> FALSE],
       [id |-> "sinh", kind |-> "CMD", name |-> "sinh", fixed |-> FALSE],
       [id |-> "cosh", kind |-> "CMD", name |-> "cosh", fixed |-> FALSE],
       [id |-> "tanh", kind |-> "CMD", name |-> "tanh", fixed |-> FALSE],
       [id |-> "log1p", kind |-> "CMD", name |-> "log1p", fixed |-> FALSE],
       [id |-> "expm1", kind |-> "CMD", name |-> "expm1", fixed |-> FALSE],
       [id |-> "log", kind |-> "CMD", name |-> "log", fixed |-> FALSE],
       [id |-> "log10", kind |-> "CMD", name |-> "log10", fixed |-> FALSE],
       [id |-> "log2", kind |-> "CMD", name |-> "log2", fixed |-> FALSE],
       [id |-> "exp", kind |-> "CMD", name |-> "exp", fixed |-> FALSE],
       [id |-> "exp10", kind |-> "CMD", name |-> "exp10", fixed |-> FALSE],
       [id |-> "exp2", kind |-> "CMD", name |-> "exp2", fixed |-> FALSE],
       [id |-> "erf", kind |-> "CMD", name |-> "erf", fixed |-> FALSE],
       [id |-> "erfc", kind |-> "CMD", name |-> "erfc", fixed |-> FALSE],
       [id |-> "tgamma", kind |-> "NAMED", name |-> "Gamma", fixed |-> FALSE],
       [id |-> "lgamma", kind |-> "CMD", name |-> "lgamma", fixed |-> FALSE],
       [id |-> "fact", kind |-> "NAMED", name |-> "!", fixed |-> FALSE],
       [id |-> "cbrt", kind |-> "NAMED", name |-> "{U+221B}", fixed |-> FALSE],
       [id |-> "pow", kind |-> "OP", name |-> "{U+2191}", fixed |-> FALSE],
       [id |-> "hypot", kind |-> "OP", name |-> "{U+22BF}", fixed |-> FALSE],
       [id |-> "atan2", kind |-> "OP", name |-> "{U+2220}", fixed |-> FALSE],
       [id |-> "xroot", kind |-> "CMD", name |-> "xroot", fixed |-> FALSE],
       [id |-> "sign", kind |-> "CMD", name |-> "sign", fixed |-> FALSE],
       [id |-> "re", kind |-> "CMD", name |-> "re", fixed |-> FALSE],
       [id |-> "im", kind |-> "CMD", name |-> "im", fixed |-> FALSE],
       [id |-> "arg", kind |-> "CMD", name |-> "arg", fixed |-> FALSE],
       [id |-> "conj", kind |-> "CMD", name |-> "conj", fixed |-> FALSE],
       [id |-> "det", kind |-> "NAMED", name |-> "Determinant", fixed |-> FALSE],
       [id |-> "ToDecimal", kind |-> "NAMED", name |-> "{U+2192}Num", fixed |-> FALSE],
       [id |-> "ToFraction", kind |-> "NAMED", name |-> "{U+2192}Frac", fixed |-> FALSE],
       [id |-> "IfThen", kind |-> "CMD", name |-> "IfThen", fixed |-> FALSE],
       [id |-> "IfThenElse", kind |-> "CMD", name |-> "IfThenElse", fixed |-> FALSE],
       [id |-> "DoUntil", kind |-> "CMD", name |-> "DoUntil", fixed |-> FALSE],
       [id |-> "WhileRepeat", kind |-> "CMD", name |-> "WhileRepeat", fixed |-> FALSE],
       [id |-> "StartNext", kind |-> "CMD", name |-> "StartNext", fixed |-> FALSE],
       [id |-> "StartStep", kind |-> "CMD", name |-> "StartStep", fixed |-> FALSE],
       [id |-> "ForNext", kind |-> "CMD", name |-> "ForNext", fixed |-> FALSE],
       [id |-> "ForStep", kind |-> "CMD", name |-> "ForStep", fixed |-> FALSE],
       [id |-> "Depth", kind |-> "CMD", name |-> "Depth", fixed |-> FALSE],
       [id |-> "ToList", kind |-> "NAMED", name |-> "{U+2192}List", fixed |-> FALSE],
       [id |-> "Get", kind |-> "CMD", name |-> "Get", fixed |-> FALSE],
       [id |-> "Rewrite", kind |-> "CMD", name |-> "Rewrite", fixed |-> FALSE],
       [id |-> "Expand", kind |-> "CMD", name |-> "Expand", fixed |-> FALSE],
       [id |-> "Collect", kind |-> "CMD", name |-> "Collect", fixed |-> FALSE],
       [id |-> "Simplify", kind |-> "CMD", name |-> "Simplify", fixed |-> FALSE],
       [id |-> "RealToComplex", kind |-> "NAMED", name |-> "{U+211D}{U+2192}{U+2102}", fixed |-> FALSE],
       [id |-> "ComplexToReal", kind |-> "NAMED", name |-> "{U+2102}{U+2192}{U+211D}", fixed |-> FALSE],
       [id |-> "ToRectangular", kind |-> "NAMED", name |-> "{U+2192}Rectangular", fixed |-> FALSE],
       [id |-> "ToPolar", kind |-> "NAMED", name |-> "{U+2192}Polar", fixed |-> FALSE],
       [id |-> "Purge", kind |-> "CMD", name |-> "Purge", fixed |-> FALSE],
       [id |-> "PurgeAll", kind |-> "CMD", name |-> "PurgeAll", fixed |-> FALSE],
       [id |-> "Mem", kind |-> "NAMED", name |-> "AvailableMemory", fixed |-> FALSE],
       [id |-> "FreeMemory", kind |-> "CMD", name |-> "FreeMemory", fixed |-> FALSE],
       [id |-> "SystemMemory", kind |-> "CMD", name |-> "SystemMemory", fixed |-> FALSE],
       [id |-> "GarbageCollect", kind |-> "CMD", name |-> "GarbageCollect", fixed |-> FALSE],
       [id |-> "home", kind |-> "NAMED", name |-> "HomeDirectory", fixed |-> FALSE],
       [id |-> "CurrentDirectory", kind |-> "CMD", name |-> "CurrentDirectory", fixed |-> FALSE],
       [id |-> "path", kind |-> "NAMED", name |-> "DirectoryPath", fixed |-> FALSE],
       [id |-> "crdir", kind |-> "NAMED", name |-> "CreateDirectory", fixed |-> FALSE],
       [id |-> "updir", kind |-> "NAMED", name |-> "UpDirectory", fixed |-> FALSE],
       [id |-> "pgdir", kind |-> "NAMED", name |-> "PurgeDirectory", fixed |-> FALSE],
       [id |-> "IFT", kind |-> "NAMED", name |-> "IfThen", fixed |-> FALSE],
       [id |-> "IFTE", kind |-> "NAMED", name |-> "IfThenElse", fixed |-> FALSE],
       [id |-> "IfErrThen", kind |-> "CMD", name |-> "IfErrThen", fixed |-> FALSE],
       [id |-> "IfErrThenElse", kind |-> "CMD", name |-> "IfErrThenElse", fixed |-> FALSE],
       [id |-> "errm", kind |-> "NAMED", name |-> "ErrorMessage", fixed |-> FALSE],
       [id |-> "errn", kind |-> "NAMED", name |-> "ErrorNumber", fixed |-> FALSE],
       [id |-> "err0", kind |-> "NAMED", name |-> "ClearError", fixed |-> FALSE],
       [id |-> "doerr", kind |-> "NAMED", name |-> "DoError", fixed |-> FALSE],
       [id |-> "Disp", kind |-> "NAMED", name |-> "DrawText", fixed |-> FALSE],
       [id |-> "DispXY", kind |-> "NAMED", name |-> "DrawStyledText", fixed |-> FALSE],
       [id |-> "Line", kind |-> "NAMED", name |-> "DrawLine", fixed |-> FALSE],
       [id |-> "Ellipse", kind |-> "NAMED", name |-> "DrawEllipse", fixed |-> FALSE],
       [id |-> "Circle", kind |-> "NAMED", name |-> "DrawCircle", fixed |-> FALSE],
       [id |-> "Rect", kind |-> "NAMED", name |-> "DrawRectangle", fixed |-> FALSE],
       [id |-> "RRect", kind |-> "NAMED", name |-> "DrawRoundedRectangle", fixed |-> FALSE],
       [id |-> "ClLCD", kind |-> "NAMED", name |-> "ClearLCD", fixed |-> FALSE],
       [id |-> "Draw", kind |-> "NAMED", name |-> "DrawPlot", fixed |-> FALSE],
       [id |-> "Drax", kind |-> "NAMED", name |-> "DrawAxes", fixed |-> FALSE],
       [id |-> "Function", kind |-> "NAMED", name |-> "FunctionPlot", fixed |-> FALSE],
       [id |-> "Polar", kind |-> "NAMED", name |-> "PolarPlot", fixed |-> FALSE],
       [id |-> "Parametric", kind |-> "NAMED", name |-> "ParametricPlot", fixed |-> FALSE],
       [id |-> "Clip", kind |-> "CMD", name |-> "Clip", fixed |-> FALSE],
       [id |-> "CurrentClip", kind |-> "CMD", name |-> "CurrentClip", fixed |-> FALSE],
       [id |-> "GXor", kind |-> "NAMED", name |-> "GraphicXor", fixed |-> FALSE],
       [id |-> "GOr", kind |-> "NAMED", name |-> "GraphicOr", fixed |-> FALSE],
       [id |-> "GAnd", kind |-> "NAMED", name |-> "GraphicAnd", fixed |-> FALSE],
       [id |-> "Pict", kind |-> "NAMED", name |-> "GraphicPicture", fixed |-> FALSE],
       [id |-> "ToTag", kind |-> "NAMED", name |-> "{U+2192}Tag", fixed |-> FALSE],
       [id |-> "FromTag", kind |-> "NAMED", name |-> "Tag{U+2192}", fixed |-> FALSE],
       [id |-> "dtag", kind |-> "NAMED", name |-> "DeleteTag", fixed |-> FALSE],
       [id |-> "Cycle", kind |-> "CMD", name |-> "Cycle", fixed |-> FALSE],
       [id |-> "RealToBinary", kind |-> "CMD", name |-> "RealToBinary", fixed |-> FALSE],
       [id |-> "BinaryToReal", kind |-> "CMD", name |-> "BinaryToReal", fixed |-> FALSE],
       [id |-> "Ticks", kind |-> "CMD", name |-> "Ticks", fixed |-> FALSE],
       [id |-> "Wait", kind |-> "CMD", name |-> "Wait", fixed |-> FALSE],
       [id |-> "Bytes", kind |-> "CMD", name |-> "Bytes", fixed |-> FALSE],
       [id |-> "Type", kind |-> "CMD", name |-> "Type", fixed |-> FALSE],
       [id |-> "TypeName", kind |-> "CMD", name |-> "TypeName", fixed |-> FALSE],
       [id |-> "Version", kind |-> "CMD", name |-> "Version", fixed |-> FALSE],
       [id |-> "Root", kind |-> "CMD", name |-> "Root", fixed |-> FALSE],
       [id |-> "Integrate", kind |-> "NAMED", name |-> "{U+222B}", fixed |-> FALSE],
       [id |-> "Modes", kind |-> "CMD", name |-> "Modes", fixed |-> FALSE],
       [id |-> "ResetModes", kind |-> "CMD", name |-> "ResetModes", fixed |-> FALSE],
       [id |-> "Std", kind |-> "NAMED", name |-> "StandardDisplay", fixed |-> FALSE],
       [id |-> "Fix", kind |-> "NAMED", name |-> "FixedDisplay", fixed |-> FALSE],
       [id |-> "Sci", kind |-> "NAMED", name |-> "ScientificDisplay", fixed |-> FALSE],
       [id |-> "Eng", kind |-> "NAMED", name |-> "EngineeringDisplay", fixed |-> FALSE],
       [id |-> "Sig", kind |-> "NAMED", name |-> "SignificantDisplay", fixed |-> FALSE],
       [id |-> "Deg", kind |-> "NAMED", name |-> "Degrees", fixed |-> FALSE],
       [id |-> "Rad", kind |-> "NAMED", name |-> "Radians", fixed |-> FALSE],
       [id |-> "Grad", kind |-> "NAMED", name |-> "Grads", fixed |-> FALSE],
       [id |-> "PiRadians", kind |-> "CMD", name |-> "PiRadians", fixed |-> FALSE],
       [id |-> "LowerCase", kind |-> "CMD", name |-> "LowerCase", fixed |-> FALSE],
       [id |-> "UpperCase", kind |-> "CMD", name |-> "UpperCase", fixed |-> FALSE],
       [id |-> "Capitalized", kind |-> "CMD", name |-> "Capitalized", fixed |-> FALSE],
       [id |-> "LongForm", kind |-> "CMD", name |-> "LongForm", fixed |-> FALSE],
       [id |-> "DecimalDot", kind |-> "CMD", name |-> "DecimalDot", fixed |-> FALSE],
       [id |-> "DecimalComma", kind |-> "CMD", name |-> "DecimalComma", fixed |-> FALSE],
       [id |-> "NoTrailingDecimal", kind |-> "CMD", name |-> "NoTrailingDecimal", fixed |-> FALSE],
       [id |-> "TrailingDecimal", kind |-> "CMD", name |-> "TrailingDecimal", fixed |-> FALSE],
       [id |-> "Precision", kind |-> "CMD", name |-> "Precision", fixed |-> FALSE],
       [id |-> "StandardExponent", kind |-> "CMD", name |-> "StandardExponent", fixed |-> FALSE],
       [id |-> "FancyExponent", kind |-> "CMD", name |-> "FancyExponent", fixed |-> FALSE],
       [id |-> "ClassicExponent", kind |-> "CMD", name |-> "ClassicExponent", fixed |-> FALSE],
       [id |-> "Base", kind |-> "CMD", name |-> "Base", fixed |-> FALSE],
       [id |-> "Bin", kind |-> "NAMED", name |-> "Binary", fixed |-> FALSE],
       [id |-> "Oct", kind |-> "NAMED", name |-> "Octal", fixed |-> FALSE],
       [id |-> "Dec", kind |-> "NAMED", name |-> "Decimal", fixed |-> FALSE],
       [id |-> "Hex", kind |-> "NAMED", name |-> "Hexadecimal", fixed |-> FALSE],
       [id |-> "stws", kind |-> "NAMED", name |-> "StoreWordSize", fixed |-> FALSE],
       [id |-> "rcws", kind |-> "NAMED", name |-> "WordSize", fixed |-> FALSE],
       [id |-> "ResultFontSize", kind |-> "CMD", name |-> "ResultFontSize", fixed |-> FALSE],
       [id |-> "StackFontSize", kind |-> "CMD", name |-> "StackFontSize", fixed |-> FALSE],
       [id |-> "EditorFontSize", kind |-> "CMD", name |-> "EditorFontSize", fixed |-> FALSE],
       [id |-> "EditorMultilineFontSize", kind |-> "CMD", name |-> "EditorMultilineFontSize", fixed |-> FALSE],
       [id |-> "MantissaSpacing", kind |-> "CMD", name |-> "MantissaSpacing", fixed |-> FALSE],
       [id |-> "FractionSpacing", kind |-> "CMD", name |-> "FractionSpacing", fixed |-> FALSE],
       [id |-> "BasedSpacing", kind |-> "CMD", name |-> "BasedSpacing", fixed |-> FALSE],
       [id |-> "NumberSpaces", kind |-> "CMD", name |-> "NumberSpaces", fixed |-> FALSE],
       [id |-> "NumberDotOrComma", kind |-> "CMD", name |-> "NumberDotOrComma", fixed |-> FALSE],
       [id |-> "NumberTicks", kind |-> "CMD", name |-> "NumberTicks", fixed |-> FALSE],
       [id |-> "NumberUnderscore", kind |-> "CMD", name |-> "NumberUnderscore", fixed |-> FALSE],
       [id |-> "BasedSpaces", kind |-> "CMD", name |-> "BasedSpaces", fixed |-> FALSE],
       [id |-> "BasedDotOrComma", kind |-> "CMD", name |-> "BasedDotOrComma", fixed |-> FALSE],
       [id |-> "BasedTicks", kind |-> "CMD", name |-> "BasedTicks", fixed |-> FALSE],
       [id |-> "BasedUnderscore", kind |-> "CMD", name |-> "BasedUnderscore", fixed |-> FALSE],
       [id |-> "AutoSimplify", kind |-> "CMD", name |-> "AutoSimplify", fixed |-> FALSE],
       [id |-> "NoAutoSimplify", kind |-> "CMD", name |-> "NoAutoSimplify", fixed |-> FALSE],
       [id |-> "NumericResults", kind |-> "CMD", name |-> "NumericResults", fixed |-> FALSE],
       [id |-> "SymbolicResults", kind |-> "CMD", name |-> "SymbolicResults", fixed |-> FALSE],
       [id |-> "MaxBigNumBits", kind |-> "CMD", name |-> "MaxBigNumBits", fixed |-> FALSE],
       [id |-> "MaxRewrites", kind |-> "CMD", name |-> "MaxRewrites", fixed |-> FALSE],
       [id |-> "ToFractionIterations", kind |-> "NAMED", name |-> "{U+2192}FracIterations", fixed |-> FALSE],
       [id |-> "ToFractionDigits", kind |-> "NAMED", name |-> "{U+2192}FracDigits", fixed |-> FALSE],
       [id |-> "SingleRowMenus", kind |-> "CMD", name |-> "SingleRowMenus", fixed |-> FALSE],
       [id |-> "FlatMenus", kind |-> "CMD", name |-> "FlatMenus", fixed |-> FALSE],
       [id |-> "ThreeRowsMenus", kind |-> "CMD", name |-> "ThreeRowsMenus", fixed |-> FALSE],
       [id |-> "RoundedMenus", kind |-> "CMD", name |-> "RoundedMenus", fixed |-> FALSE],
       [id |-> "SquareMenus", kind |-> "CMD", name |-> "SquareMenus", fixed |-> FALSE],
       [id |-> "LineWidth", kind |-> "CMD", name |-> "LineWidth", fixed |-> FALSE],
       [id |-> "Foreground", kind |-> "CMD", name |-> "Foreground", fixed |-> FALSE],
       [id |-> "Background", kind |-> "CMD", name |-> "Background", fixed |-> FALSE],
       [id |-> "GraphicsStackDisplay", kind |-> "CMD", name |-> "GraphicsStackDisplay", fixed |-> FALSE],
       [id |-> "TextStackDisplay", kind |-> "CMD", name |-> "TextStackDisplay", fixed |-> FALSE],
       [id |-> "MainMenu", kind |-> "MENU", name |-> "", fixed |-> FALSE],
       [id |-> "MathMenu", kind |-> "MENU", name |-> "", fixed |-> FALSE],
       [id |-> "RealMenu", kind |-> "MENU", name |-> "", fixed |-> FALSE],
       [id |-> "PartsMenu", kind |-> "MENU", name |-> "", fixed |-> FALSE],
       [id |-> "FractionsMenu", kind |-> "MENU", name |-> "", fixed |-> FALSE],
       [id |-> "PowersMenu", kind |-> "MENU", name |-> "", fixed |-> FALSE],
       [id |-> "ComplexMenu", kind |-> "MENU", name |-> "", fixed |-> FALSE],
       [id |-> "VectorMenu", kind |-> "MENU", name |-> "", fixed |-> FALSE],
       [id |-> "MatrixMenu", kind |-> "MENU", name |-> "", fixed |-> FALSE],
       [id |-> "AnglesMenu", kind |-> "MENU", name |-> "", fixed |-> FALSE],
       [id |-> "HyperbolicMenu", kind |-> "MENU", name |-> "", fixed |-> FALSE],
       [id |-> "ExpLogMenu", kind |-> "MENU", name |-> "", fixed |-> FALSE],
       [id |-> "CircularMenu", kind |-> "MENU", name |-> "", fixed |-> FALSE],
       [id |-> "BasesMenu", kind |-> "MENU", name |-> "", fixed |-> FALSE],
       [id |-> "ProbabilitiesMenu", kind |-> "MENU", name |-> "", fixed |-> FALSE],
       [id |-> "NumbersMenu", kind |-> "MENU", name |-> "", fixed |-> FALSE],
       [id |-> "DebugMenu", kind |-> "MENU", name |-> "", fixed |-> FALSE],
       [id |-> "StatisticsMenu", kind |-> "MENU", name |-> "", fixed |-> FALSE],
       [id |-> "SignalProcessingMenu", kind |-> "MENU", name |-> "", fixed |-> FALSE],
       [id |-> "ConstantsMenu", kind |-> "MENU", name |-> "", fixed |-> FALSE],
       [id |-> "EquationsMenu", kind |-> "MENU", name |-> "", fixed |-> FALSE],
       [id |-> "UnitsMenu", kind |-> "MENU", name |-> "", fixed |-> FALSE],
       [id |-> "UnitsConversionsMenu", kind |-> "MENU", name |-> "", fixed |-> FALSE],
       [id |-> "SymbolicMenu", kind |-> "MENU", name |-> "", fixed |-> FALSE],
       [id |-> "IntegrationMenu", kind |-> "MENU", name |-> "", fixed |-> FALSE],
       [id |-> "DifferentiationMenu", kind |-> "MENU", name |-> "", fixed |-> FALSE],
       [id |-> "SolverMenu", kind |-> "MENU", name |-> "", fixed |-> FALSE],
       [id |-> "PolynomialsMenu", kind |-> "MENU", name |-> "", fixed |-> FALSE],
       [id |-> "NumericalSolverMenu", kind |-> "MENU", name |-> "", fixed |-> FALSE],
       [id |-> "DifferentialSolverMenu", kind |-> "MENU", name |-> "", fixed |-> FALSE],
       [id |-> "SymbolicSolverMenu", kind |-> "MENU", name |-> "", fixed |-> FALSE],
       [id |-> "PolynomialSolverMenu", kind |-> "MENU", name |-> "", fixed |-> FALSE],
       [id |-> "LinearSolverMenu", kind |-> "MENU", name |-> "", fixed |-> FALSE],
       [id |-> "MultiSolverMenu", kind |-> "MENU", name |-> "", fixed |-> FALSE],
       [id |-> "FinanceSolverMenu", kind |-> "MENU", name |-> "", fixed |-> FALSE],
       [id |-> "ProgramMenu", kind |-> "MENU", name |-> "", fixed |-> FALSE],
       [id |-> "TestsMenu", kind |-> "MENU", name |-> "", fixed |-> FALSE],
       [id |-> "CompareMenu", kind |-> "MENU", name |-> "", fixed |-> FALSE],
       [id |-> "LoopsMenu", kind |-> "MENU", name |-> "", fixed |-> FALSE],
       [id |-> "ListMenu", kind |-> "MENU", name |-> "", fixed |-> FALSE],
       [id |-> "StackMenu", kind |-> "MENU", name |-> "", fixed |-> FALSE],
       [id |-> "ClearThingsMenu", kind |-> "MENU", name |-> "", fixed |-> FALSE],
       [id |-> "ObjectMenu", kind |-> "MENU", name |-> "", fixed |-> FALSE],
       [id |-> "FlagsMenu", kind |-> "MENU", name |-> "", fixed |-> FALSE],
       [id |-> "CharsMenu", kind |-> "MENU", name |-> "", fixed |-> FALSE],
       [id |-> "ModesMenu", kind |-> "MENU", name |-> "", fixed |-> FALSE],
       [id |-> "DisplayModesMenu", kind |-> "MENU", name |-> "", fixed |-> FALSE],
       [id |-> "SeparatorModesMenu", kind |-> "MENU", name |-> "", fixed |-> FALSE],
       [id |-> "UserInterfaceModesMenu", kind |-> "MENU", name |-> "", fixed |-> FALSE],
       [id |-> "MathModesMenu", kind |-> "MENU", name |-> "", fixed |-> FALSE],
       [id |-> "PrintingMenu", kind |-> "MENU", name |-> "", fixed |-> FALSE],
       [id |-> "IOMenu", kind |-> "MENU", name |-> "", fixed |-> FALSE],
       [id |-> "FilesMenu", kind |-> "MENU", name |-> "", fixed |-> FALSE],
       [id |-> "TimeMenu", kind |-> "MENU", name |-> "", fixed |-> FALSE],
       [id |-> "PlotMenu", kind |-> "MENU", name |-> "", fixed |-> FALSE],
       [id |-> "GraphicsMenu", kind |-> "MENU", name |-> "", fixed |-> FALSE],
       [id |-> "MemMenu", kind |-> "MENU", name |-> "", fixed |-> FALSE],
       [id |-> "LibsMenu", kind |-> "MENU", name |-> "", fixed |-> FALSE],
       [id |-> "TextMenu", kind |-> "MENU", name |-> "", fixed |-> FALSE],
       [id |-> "EditMenu", kind |-> "MENU", name |-> "", fixed |-> FALSE],
       [id |-> "VariablesMenu", kind |-> "CMD", name |-> "VariablesMenu", fixed |-> FALSE],
       [id |-> "ToolsMenu", kind |-> "CMD", name |-> "ToolsMenu", fixed |-> FALSE],
       [id |-> "Catalog", kind |-> "CMD", name |-> "Catalog", fixed |-> FALSE],
       [id |-> "LastMenu", kind |-> "CMD", name |-> "LastMenu", fixed |-> FALSE],
       [id |-> "Off", kind |-> "NAMED", name |-> "PowerOff", fixed |-> FALSE],
       [id |-> "SaveState", kind |-> "CMD", name |-> "SaveState", fixed |-> FALSE],
       [id |-> "SystemSetup", kind |-> "CMD", name |-> "SystemSetup", fixed |-> FALSE],
       [id |-> "Help", kind |-> "CMD", name |-> "Help", fixed |-> FALSE],
       [id |-> "Undo", kind |-> "CMD", name |-> "Undo", fixed |-> FALSE],
       [id |-> "LastArg", kind |-> "NAMED", name |-> "LastArguments", fixed |-> FALSE],
       [id |-> "LastX", kind |-> "CMD", name |-> "LastX", fixed |-> FALSE],
       [id |-> "EditorSelect", kind |-> "CMD", name |-> "EditorSelect", fixed |-> FALSE],
       [id |-> "EditorWordLeft", kind |-> "CMD", name |-> "EditorWordLeft", fixed |-> FALSE],
       [id |-> "EditorWordRight", kind |-> "CMD", name |-> "EditorWordRight", fixed |-> FALSE],
       [id |-> "EditorBegin", kind |-> "CMD", name |-> "EditorBegin", fixed |-> FALSE],
       [id |-> "EditorEnd", kind |-> "CMD", name |-> "EditorEnd", fixed |-> FALSE],
       [id |-> "EditorCut", kind |-> "CMD", name |-> "EditorCut", fixed |-> FALSE],
       [id |-> "EditorCopy", kind |-> "CMD", name |-> "EditorCopy", fixed |-> FALSE],
       [id |-> "EditorPaste", kind |-> "CMD", name |-> "EditorPaste", fixed |-> FALSE],
       [id |-> "EditorSearch", kind |-> "CMD", name |-> "EditorSearch", fixed |-> FALSE],
       [id |-> "EditorReplace", kind |-> "CMD", name |-> "EditorReplace", fixed |-> FALSE],
       [id |-> "EditorClear", kind |-> "CMD", name |-> "EditorClear", fixed |-> FALSE],
       [id |-> "EditorFlip", kind |-> "CMD", name |-> "EditorFlip", fixed |-> FALSE],
       [id |-> "Unimplemented", kind |-> "CMD", name |-> "Unimplemented", fixed |-> FALSE],
       [id |-> "MenuNextPage", kind |-> "CMD", name |-> "MenuNextPage", fixed |-> FALSE],
       [id |-> "MenuPreviousPage", kind |-> "CMD", name |-> "MenuPreviousPage", fixed |-> FALSE],
       [id |-> "MenuFirstPage", kind |-> "CMD", name |-> "MenuFirstPage", fixed |-> FALSE],
       [id |-> "VariablesMenuExecute", kind |-> "CMD", name |-> "VariablesMenuExecute", fixed |-> FALSE],
       [id |-> "VariablesMenuRecall", kind |-> "CMD", name |-> "VariablesMenuRecall", fixed |-> FALSE],
       [id |-> "VariablesMenuStore", kind |-> "CMD", name |-> "VariablesMenuStore", fixed |-> FALSE],
       [id |-> "SelfInsert", kind |-> "CMD", name |-> "SelfInsert", fixed |-> FALSE],
       [id |-> "font", kind |-> "ID", name |-> "", fixed |-> FALSE],
       [id |-> "dense_font", kind |-> "ID", name |-> "", fixed |-> FALSE],
       [id |-> "sparse_font", kind |-> "ID", name |-> "", fixed |-> FALSE],
       [id |-> "dmcp_font", kind |-> "ID", name |-> "", fixed |-> FALSE],
       [id |-> "tag", kind |-> "ID", name |-> "", fixed |-> FALSE]
    >>

aliases ==
    <<
       [id |-> "ToText", name |-> "{U+2192}Str"],
       [id |-> "mul", name |-> "*"],
       [id |-> "div", name |-> "/"],
       [id |-> "abs", name |-> "modulus"],
       [id |-> "log1p", name |-> "lnp1"],
       [id |-> "expm1", name |-> "expm"],
       [id |-> "fact", name |-> "factorial"],
       [id |-> "pow", name |-> "^"],
       [id |-> "ToDecimal", name |-> "{U+2192}Decimal"],
       [id |-> "ToFraction", name |-> "{U+2192}Q"],
       [id |-> "RealToComplex", name |-> "R{U+2192}C"],
       [id |-> "ComplexToReal", name |-> "C{U+2192}R"],
       [id |-> "ToRectangular", name |-> "{U+2192}Rect"],
       [id |-> "RealToBinary", name |-> "R{U+2192}B"],
       [id |-> "BinaryToReal", name |-> "B{U+2192}R"],
       [id |-> "ToFractionIterations", name |-> "{U+2192}QIterations"],
       [id |-> "ToFractionDigits", name |-> "{U+2192}QDigits"]
    >>

\* The entries of a build: with or without CONFIG_FIXED_BASED_OBJECTS
selected(e, fixed) == fixed \/ ~e.fixed

table(fixed) == SelectSeq(ids_tbl, LAMBDA e : selected(e, fixed))

\* The value of the id in the enumeration: its rank in the table of the build
id_value(fixed, id) ==
    LET t == table(fixed)
    IN  IF \E i \in 1..Len(t) : t[i].id = id
        THEN (CHOOSE i \in 1..Len(t) : t[i].id = id) - 1
        ELSE -1

\* Mutant of flags: is_integer ends at neg_fraction
flags_integer_to_fraction(fixed) ==
    <<[name |-> "is_type",      ranges |-> << <<"directory", "decimal128">> >>],
      [name |-> "is_integer",
       ranges |-> << <<"based_integer", "neg_fraction">> >>],
      [name |-> "is_based",
       ranges |-> << <<"based_integer", "based_integer">>,
                     <<"based_bignum", "based_bignum">> >>],
      [name |-> "is_bignum",
       ranges |-> << <<"based_bignum", "neg_bignum">> >>],
      [name |-> "is_fraction",  ranges |-> << <<"fraction", "neg_big_fraction">> >>],
      [name |-> "is_decimal",   ranges |-> << <<"decimal32", "decimal128">> >>],
      [name |-> "is_real",      ranges |-> << <<"bignum", "decimal128">> >>],
      [name |-> "is_complex",   ranges |-> << <<"rectangular", "polar">> >>],
      [name |-> "is_command",   ranges |-> << <<"Drop", "Unimplemented">> >>],
      [name |-> "is_symbolic",  ranges |-> << <<"local", "equation">>,
                                              <<"pi", "ImaginaryUnit">> >>],
      [name |-> "is_algebraic", ranges |-> << <<"add", "ToFraction">> >>],
      [name |-> "is_immediate", ranges |-> << <<"MainMenu", "SelfInsert">> >>]>>

\* FLAGS(name, first, last [, first, last]) of a build
flags(fixed) ==
    <<[name |-> "is_type",      ranges |-> << <<"directory", "decimal128">> >>],
      IF fixed
      THEN [name |-> "is_integer",
            ranges |-> << <<"hex_integer", "neg_integer">> >>]
      ELSE [name |-> "is_integer",
            ranges |-> << <<"based_integer", "neg_integer">> >>],
      IF fixed
      THEN [name |-> "is_based",
            ranges |-> << <<"hex_integer", "based_integer">>,
                          <<"hex_bignum", "based_bignum">> >>]
      ELSE [name |-> "is_based",
            ranges |-> << <<"based_integer", "based_integer">>,
                          <<"based_bignum", "based_bignum">> >>],
      IF fixed
      THEN [name |-> "is_bignum",
            ranges |-> << <<"hex_bignum", "neg_bignum">> >>]
      ELSE [name |-> "is_bignum",
            ranges |-> << <<"based_bignum", "neg_bignum">> >>],
      [name |-> "is_fraction",  ranges |-> << <<"fraction", "neg_big_fraction">> >>],
      [name |-> "is_decimal",   ranges |-> << <<"decimal32", "decimal128">> >>],
      [name |-> "is_real",      ranges |-> << <<"bignum", "decimal128">> >>],
      [name |-> "is_complex",   ranges |-> << <<"rectangular", "polar">> >>],
      [name |-> "is_command",   ranges |-> << <<"Drop", "Unimplemented">> >>],
      [name |-> "is_symbolic",  ranges |-> << <<"local", "equation">>,
                                              <<"pi", "ImaginaryUnit">> >>],
      [name |-> "is_algebraic", ranges |-> << <<"add", "ToFraction">> >>],
      [name |-> "is_immediate", ranges |-> << <<"MainMenu", "SelfInsert">> >>]>>

FlagNames == {"is_type", "is_integer", "is_based", "is_bignum", "is_fraction",
              "is_decimal", "is_real", "is_complex", "is_command",
              "is_symbolic", "is_algebraic", "is_immediate"}

\* The ranges of a flag in a build
flag_ranges(fixed, flag) ==
    LET f == flags(fixed)
    IN  f[CHOOSE i \in 1..Len(f) : f[i].name = flag].ranges

\* The predicate a FLAGS line defines, modelled from the specification: an
\* inclusive comparison of the id with the first and last id of a range
has_flag(fixed, flag, id) ==
    LET rs == flag_ranges(fixed, flag)
        v  == id_value(fixed, id)
    IN  \E k \in 1..Len(rs) :
           /\ id_value(fixed, rs[k][1]) <= v
           /\ v <= id_value(fixed, rs[k][2])

\* The spellings an entry registers: a command's id, its name, its aliases
spellings(e) ==
    (IF e.kind \in {"CMD", "NAMED", "OP"} THEN {e.id} ELSE {})
    \cup (IF e.name # "" THEN {e.name} ELSE {})
    \cup {aliases[i].name : i \in {j \in 1..Len(aliases) : aliases[j].id = e.id}}

\* The command a spelling names: the first entry of the table that registers
\* it, "none" when no entry does
command_for(fixed, spelling) ==
    LET t    == table(fixed)
        hits == {i \in 1..Len(t) : spelling \in spellings(t[i])}
    IN  IF hits = {} THEN "none"
        ELSE t[CHOOSE i \in hits : \A j \in hits : i <= j].id

(***************************************************************************)
(* The state machine of the table: one query of the table of a build,      *)
(* the command of a spelling or the flag of an id.                         *)
(***************************************************************************)
\* The ASCII spellings the specification names
AsciiSpellings == {"*", "/", "<="}

\* The spellings looked up: those of the table and the ASCII ones
LookedUp ==
    UNION {spellings(ids_tbl[i]) : i \in 1..Len(ids_tbl)} \cup AsciiSpellings

\* The ids whose flags are queried: the object kinds and the first commands
QueriedIds == {ids_tbl[i].id : i \in 1..Len(ids_tbl)}

InitTable ==
    /\ yg = NULL
    /\ xg = NULL
    /\ Settings = [wordsize |-> 8, maxbignum |-> 16]
    /\ error = "none"
    /\ scratch = 0
    /\ last = NoOp
    /\ rnd = NoRenderer
    /\ Idle

\* Parsing a spelling as a command
Lookup ==
    /\ last.op = "none"
    /\ \E fixed \in BOOLEAN, spelling \in LookedUp :
          last' = [NoOp EXCEPT !.op = "lookup", !.config = fixed,
                      !.name = spelling,
                      !.id = command_for(fixed, spelling)]
    /\ UNCHANGED <<yg, xg, Settings, error, scratch, rnd, rt, ui, Screen>>

\* Testing a flag of an id
Classify ==
    /\ last.op = "none"
    /\ \E fixed \in BOOLEAN, flag \in FlagNames, id \in QueriedIds :
          /\ id_value(fixed, id) >= 0
          /\ last' = [NoOp EXCEPT !.op = "flag", !.config = fixed,
                         !.name = flag, !.id = id,
                         !.ok = has_flag(fixed, flag, id)]
    /\ UNCHANGED <<yg, xg, Settings, error, scratch, rnd, rt, ui, Screen>>

NextTable ==
    \/ Lookup
    \/ Classify

SpecTable == InitTable /\ [][NextTable]_vars

(***************************************************************************)
(* graphics.cc: PlotParameters::pixel_adjust, pair_pixel_x, pair_pixel_y   *)
(* and the drawing commands Line, Ellipse, Circle, Rect, RRect.            *)
(*                                                                         *)
(* An object of the stack is [type, v, x, y]: v is the magnitude of a      *)
(* number, x and y are the two items of a list.  The stack is a sequence   *)
(* whose last element is level 1.                                          *)
(***************************************************************************)
NoChild == [type |-> "nullptr", v |-> 0]

Scalar(type, v) == [type |-> type, v |-> v]

List2(x, y) == [type |-> "list", v |-> 0, x |-> x, y |-> y]

\* PlotParameters::PlotParameters(): the default ranges
xmin == -10
xmax == 10
ymin == -6
ymax == 6

\* The size of the screen in pixels
ScreenWidth  == 400
ScreenHeight == 240

NumericTypes ==
    {"integer", "neg_integer", "bignum", "neg_bignum", "fraction",
     "neg_fraction", "big_fraction", "neg_big_fraction", "decimal32",
     "decimal64", "decimal128"}

BasedTypes == {"based_integer", "based_bignum"}

\* The number a numeric object denotes
number_of(obj) ==
    IF obj.type \in {"neg_integer", "neg_bignum", "neg_fraction",
                     "neg_big_fraction"}
    THEN 0 - obj.v ELSE obj.v

\* pos->as_int32(0, false) of the exact quotient a / b: towards zero
as_int32(a, b) ==
    LET aa == IF a < 0 THEN 0 - a ELSE a
        bb == IF b < 0 THEN 0 - b ELSE b
        q  == aa \div bb
    IN  IF (a < 0) = (b < 0) THEN q ELSE 0 - q

\* PlotParameters::pixel_adjust(obj, min, max, scale, isSize): the
\* coordinate and the error raised.  oom: the arithmetic on a number runs
\* out of memory, which leaves a null pos and the result 0
pixel_adjust(obj, min, max, scale, isSize, oom) ==
    IF obj.type = "nullptr" THEN [result |-> 0, err |-> "none"]
    ELSE IF obj.type \in NumericTypes
    THEN IF oom THEN [result |-> 0, err |-> "out_of_memory"]
         ELSE [result |-> as_int32((IF isSize THEN number_of(obj)
                                    ELSE number_of(obj) - min) * scale,
                                   IF max - min = 0 THEN 1 ELSE max - min),
               err    |-> "none"]
    ELSE IF obj.type \in BasedTypes
    THEN [result |-> obj.v, err |-> "none"]
    ELSE [result |-> 0, err |-> "type"]

\* pos->child(i), modelled from the specification: the i-th item of a
\* list, null for an object that has no items
child(pos, i) ==
    IF pos.type = "list" THEN (IF i = 0 THEN pos.x ELSE pos.y) ELSE NoChild

pair_pixel_x(pos, oom) ==
    pixel_adjust(child(pos, 0), xmin, xmax, ScreenWidth, FALSE, oom)

pair_pixel_y(pos, oom) ==
    pixel_adjust(child(pos, 1), ymax, ymin, ScreenHeight, FALSE, oom)

\* size_adjust(obj, min, max, scale), modelled from the specification:
\* pixel_adjust of a size
size_adjust(obj, min, max, scale, oom) ==
    pixel_adjust(obj, min, max, scale, TRUE, oom)

\* rt.stack(n): the object at level n + 1
stack_at(stack, n) == stack[Len(stack) - n]

\* rt.drop(n)
drop(stack, n) == SubSeq(stack, 1, Len(stack) - n)

\* The error slot after the conversions cs made in order from slot e
RECURSIVE errors_after(_, _, _)
errors_after(e, cs, i) ==
    IF i > Len(cs) THEN e
    ELSE errors_after(raise(e, cs[i].err), cs, i + 1)

\* ui.draw_graphics() then a drawing: entering graphics mode clears the
\* screen
drawn(screen, graphics, shape) ==
    Append(IF graphics THEN screen ELSE <<>>, shape)

abs(n) == IF n < 0 THEN 0 - n ELSE n

\* What a drawing command leaves: the result, the error slot, the stack,
\* the shape drawn (<<>>: none)
Outcome(result, err, stack, shapes) ==
    [result |-> result, err |-> err, stack |-> stack, shapes |-> shapes]

\* Mutant of two_points: the arguments are taken off the stack before the
\* conversions
two_points_drop_first(shape, stack, e0, oom) ==
    IF Len(stack) < 2 THEN Outcome("ERROR", "missing_argument", stack, <<>>)
    ELSE LET p1 == stack_at(stack, 1)
             p2 == stack_at(stack, 0)
             x1 == pair_pixel_x(p1, oom = 1)
             y1 == pair_pixel_y(p1, oom = 2)
             x2 == pair_pixel_x(p2, oom = 3)
             y2 == pair_pixel_y(p2, oom = 4)
             e  == errors_after(e0, <<x1, y1, x2, y2>>, 1)
         IN  IF e = "none"
             THEN Outcome("OK", e, drop(stack, 2),
                          <<[shape |-> shape,
                             at |-> <<x1.result, y1.result,
                                      x2.result, y2.result>>]>>)
             ELSE Outcome("ERROR", e, drop(stack, 2), <<>>)

\* The body shared by Line, Ellipse and Rect: two positions, e0 is the
\* error slot after PlotParameters ppar, oom the conversion that runs out
\* of memory (0: none)
two_points(shape, stack, e0, oom) ==
    IF Len(stack) < 2 THEN Outcome("ERROR", "missing_argument", stack, <<>>)
    ELSE LET p1 == stack_at(stack, 1)
             p2 == stack_at(stack, 0)
             x1 == pair_pixel_x(p1, oom = 1)
             y1 == pair_pixel_y(p1, oom = 2)
             x2 == pair_pixel_x(p2, oom = 3)
             y2 == pair_pixel_y(p2, oom = 4)
             e  == errors_after(e0, <<x1, y1, x2, y2>>, 1)
         IN  IF e = "none"
             THEN Outcome("OK", e, drop(stack, 2),
                          <<[shape |-> shape,
                             at |-> <<x1.result, y1.result,
                                      x2.result, y2.result>>]>>)
             ELSE Outcome("ERROR", e, stack, <<>>)

\* COMMAND_BODY(Line)
Line_body(stack, e0, oom) == two_points("line", stack, e0, oom)

\* COMMAND_BODY(Ellipse)
Ellipse_body(stack, e0, oom) == two_points("ellipse", stack, e0, oom)

\* COMMAND_BODY(Rect)
Rect_body(stack, e0, oom) == two_points("rectangle", stack, e0, oom)

\* COMMAND_BODY(Circle)
Circle_body(stack, e0, oom) ==
    IF Len(stack) < 2 THEN Outcome("ERROR", "missing_argument", stack, <<>>)
    ELSE LET co == stack_at(stack, 1)
             ro == stack_at(stack, 0)
             x  == pair_pixel_x(co, oom = 1)
             y  == pair_pixel_y(co, oom = 2)
             rx == size_adjust(ro, xmin, xmax, 2 * ScreenWidth, oom = 3)
             ry == size_adjust(ro, ymin, ymax, 2 * ScreenHeight, oom = 4)
             e  == errors_after(e0, <<x, y, rx, ry>>, 1)
             ax == abs(rx.result)
             ay == abs(ry.result)
         IN  IF e = "none"
             THEN Outcome("OK", e, drop(stack, 2),
                          <<[shape |-> "ellipse",
                             at |-> <<x.result - as_int32(ax, 2),
                                      y.result - as_int32(ay, 2),
                                      x.result + as_int32(ax - 1, 2),
                                      y.result + as_int32(ay - 1, 2)>>]>>)
             ELSE Outcome("ERROR", e, stack, <<>>)

\* COMMAND_BODY(RRect)
RRect_body(stack, e0, oom) ==
    IF Len(stack) < 3 THEN Outcome("ERROR", "missing_argument", stack, <<>>)
    ELSE LET p1 == stack_at(stack, 2)
             p2 == stack_at(stack, 1)
             ro == stack_at(stack, 0)
             x1 == pair_pixel_x(p1, oom = 1)
             y1 == pair_pixel_y(p1, oom = 2)
             x2 == pair_pixel_x(p2, oom = 3)
             y2 == pair_pixel_y(p2, oom = 4)
             r  == size_adjust(ro, xmin, xmax, 2 * ScreenWidth, oom = 5)
             e  == errors_after(e0, <<x1, y1, x2, y2, r>>, 1)
         IN  IF e = "none"
             THEN Outcome("OK", e, drop(stack, 3),
                          <<[shape |-> "rounded_rectangle",
                             at |-> <<x1.result, y1.result,
                                      x2.result, y2.result, r.result>>]>>)
             ELSE Outcome("ERROR", e, stack, <<>>)

(***************************************************************************)
(* The state machine of the drawing commands: a stack of up to MaxDepth    *)
(* objects, then drawing commands for as long as no error is pending.      *)
(***************************************************************************)
MaxDepth == 3

\* Positions: numbers, based numbers, a text for x, a text for y, a list
\* of one item
Positions ==
    {List2(Scalar("integer", 1), Scalar("neg_integer", 2)),
     List2(Scalar("based_integer", 5), Scalar("based_integer", 3)),
     List2(Scalar("text", 0), Scalar("integer", 1)),
     List2(Scalar("integer", 1), Scalar("text", 0)),
     List2(Scalar("integer", 1), NoChild)}

\* Sizes: a number, a negative number, a text
Sizes ==
    {[type |-> "integer", v |-> 1, x |-> NoChild, y |-> NoChild],
     [type |-> "neg_integer", v |-> 2, x |-> NoChild, y |-> NoChild],
     [type |-> "text", v |-> 0, x |-> NoChild, y |-> NoChild]}

StackObjects == Positions \cup Sizes

Stacks == UNION {[1..n -> StackObjects] : n \in 0..MaxDepth}

InitGraphics ==
    /\ yg = NULL
    /\ xg = NULL
    /\ Settings = [wordsize |-> 8, maxbignum |-> 16]
    /\ error = "none"
    /\ scratch = 0
    /\ last = NoOp
    /\ rnd = NoRenderer
    /\ \E stack \in Stacks : rt = [rt_init EXCEPT !.stack = stack]
    /\ ui = ui_init
    /\ Screen = <<>>

\* The errors PlotParameters ppar may leave: none, or a malformed PPAR
PparErrors == {"none", "invalid_ppar"}

\* The conversions of a command, of which one may run out of memory
MaxConversions == 5

\* What a drawing command leaves behind
Draw(op, out) ==
    /\ last' = [NoOp EXCEPT !.op = op, !.ok = (out.result = "OK"),
                    !.err = out.err]
    /\ error' = out.err
    /\ rt' = [rt EXCEPT !.stack = out.stack]
    /\ ui' = IF out.shapes # <<>> THEN [ui EXCEPT !.graphics = TRUE] ELSE ui
    /\ Screen' = IF out.shapes # <<>>
                 THEN drawn(Screen, ui.graphics, out.shapes[1])
                 ELSE Screen
    /\ UNCHANGED <<yg, xg, Settings, scratch, rnd>>

Line ==
    /\ error = "none"
    /\ \E e0 \in PparErrors, oom \in 0..MaxConversions :
          Draw("Line", Line_body(rt.stack, e0, oom))

Ellipse ==
    /\ error = "none"
    /\ \E e0 \in PparErrors, oom \in 0..MaxConversions :
          Draw("Ellipse", Ellipse_body(rt.stack, e0, oom))

Circle ==
    /\ error = "none"
    /\ \E e0 \in PparErrors, oom \in 0..MaxConversions :
          Draw("Circle", Circle_body(rt.stack, e0, oom))

Rect ==
    /\ error = "none"
    /\ \E e0 \in PparErrors, oom \in 0..MaxConversions :
          Draw("Rect", Rect_body(rt.stack, e0, oom))

RRect ==
    /\ error = "none"
    /\ \E e0 \in PparErrors, oom \in 0..MaxConversions :
          Draw("RRect", RRect_body(rt.stack, e0, oom))

NextGraphics ==
    \/ Line
    \/ Ellipse
    \/ Circle
    \/ Rect
    \/ RRect

SpecGraphics == InitGraphics /\ [][NextGraphics]_vars

(***************************************************************************)
(* The user interface: user_interface.cc.  A key event is one call of      *)
(* user_interface::key.  The handlers are operators on a machine m, the    *)
(* record of what a call can read and write:                               *)
(*   m.ui    the fields of the user interface                              *)
(*   m.rt    the runtime: its stack and the text of the editor             *)
(*   m.err   the runtime's error slot                                      *)
(*   m.key   the key the handlers are given (handlers may rewrite it)      *)
(*   m.ret   what the last handler returned                                *)
(*   m.n     what the last rt.insert or rt.remove returned                 *)
(*   m.ran   the objects executed during the call, in order                *)
(*   m.parsed, m.pos, m.reopened, m.ended   what end_edit met and returned *)
(*   m.loaded   what load_help found                                       *)
(*   m.env   what the call finds outside the user interface                *)
(* The editor is a sequence of code points, and offsets count code points. *)
(* The display (dirty flags, cursor position in pixels, menus, beeps) is   *)
(* left out.  The firmware build is modelled: the SIMULATOR block of key   *)
(* (the test harness's CLEAR key) is not compiled in.                      *)
(***************************************************************************)
\* Key codes, as the tables of handle_alpha and handle_digits index them
KEY_XEQ   == 6
KEY_STO   == 7
KEY_SIN   == 10
KEY_ENTER == 13
KEY_CHS   == 15
KEY_BSP   == 17
KEY_UP    == 18
KEY_DIV   == 22
KEY_DOWN  == 23
KEY_MUL   == 27
KEY_SHIFT == 28
KEY_1     == 29
KEY_SUB   == 32
KEY_EXIT  == 33
KEY_RUN   == 36
KEY_ADD   == 37
KEY_F1    == 38
KEY_F6    == 43
KB_A      == 1
KB_F      == 6

\* The keys of the modelled keyboard; 0 is the release of a key
Keys == {KEY_SIN, KEY_ENTER, KEY_BSP, KEY_SHIFT, KEY_1, KEY_EXIT}

\* The number of code points the editor has room for: rt.insert fails with
\* an out of memory error beyond it
MaxEd == 4

\* The number of objects the stack has room for
MaxStack == 1

\* The text at 0-based [off, off + len) removed from, or chars inserted at
\* 0-based offset off of, a text
InsertAt(s, off, chars) ==
    SubSeq(s, 1, off) \o chars \o SubSeq(s, off + 1, Len(s))

RemoveAt(s, off, len) ==
    SubSeq(s, 1, off) \o SubSeq(s, off + len + 1, Len(s))

\* ed[off] in C: the code point at a 0-based offset, 0 past the end
At(s, off) == IF off + 1 <= Len(s) THEN s[off + 1] ELSE "NUL"

\* rt.editing(): the length of the text in the editor
editing(m) == Len(m.rt.editor)

\* rt.insert(offset, data, len): all of data or nothing
rt_insert(m, off, chars) ==
    IF Len(m.rt.editor) + Len(chars) > MaxEd
    THEN [m EXCEPT !.n = 0, !.err = "out_of_memory"]
    ELSE [m EXCEPT !.n = Len(chars),
                   !.rt.editor = InsertAt(@, off, chars)]

\* rt.remove(offset, len): what is there to remove, at most len
rt_remove(m, off, len) ==
    [m EXCEPT !.n = Max(0, Min(len, Len(m.rt.editor) - off)),
              !.rt.editor =
                  RemoveAt(@, off, Max(0, Min(len, Len(m.rt.editor) - off)))]

\* cursor += n, after an rt.insert
cursor_add(m) == [m EXCEPT !.ui.cursor = @ + m.n]

\* user_interface::insert: the second half, after rt.insert
insert_adjust(m, select, cursor) ==
    [m EXCEPT !.ui.select = IF select # Unbounded /\ select >= cursor
                            THEN select + m.n ELSE select,
              !.ui.cursor = cursor + m.n]

insert(m, off, chars) ==
    insert_adjust(rt_insert(m, off, chars), m.ui.select, m.ui.cursor)

\* user_interface::remove: the second half, after rt.remove
remove_adjust(m, off) ==
    [m EXCEPT !.ui.select =
                  IF @ # Unbounded /\ @ >= off
                  THEN (IF @ >= off + m.n THEN @ - m.n ELSE off)
                  ELSE @,
              !.ui.cursor =
                  IF @ >= off
                  THEN (IF @ >= off + m.n THEN @ - m.n ELSE off)
                  ELSE @]

remove(m, off, len) == remove_adjust(rt_remove(m, off, len), off)

\* The closing delimiter edit(c, m) adds after c, "" when there is none
closing(c, md) ==
    CASE c = "("  -> ")"
      [] c = "["  -> "]"
      [] c = "{"  -> "}"
      [] c = ":"  -> IF md # "TEXT" THEN ":" ELSE ""
      [] c = "\"" -> "\""
      [] c = "'"  -> "'"
      [] c = "{U+00AB}" -> "{U+00BB}"
      [] OTHER    -> ""

\* The mode edit(c, m) leaves
edit_mode(c, md) ==
    CASE c \in {"(", "'"}          -> "ALGEBRAIC"
      [] c = "["                   -> "MATRIX"
      [] c \in {"{", "{U+00AB}"}   -> "PROGRAM"
      [] c = ":"                   -> "DIRECT"
      [] c = "\""                  -> "TEXT"
      [] OTHER                     -> md

\* edit(c, m), after the insertion of c: the space before an opening
\* delimiter, then the closing delimiter
edit_space(m, c, md, savec, mode) ==
    IF /\ closing(c, md) # ""
       /\ mode \in {"PROGRAM", "ALGEBRAIC", "DIRECT"}
       /\ savec > 0
       /\ At(m.rt.editor, savec) # " "
    THEN cursor_add(rt_insert(m, savec, <<" ">>))
    ELSE m

edit_closing(m, c, md) ==
    IF closing(c, md) = "" THEN m
    ELSE rt_insert(m, m.ui.cursor, <<closing(c, md)>>)

edit_finish(m, c, md) ==
    [m EXCEPT !.ui.mode = edit_mode(c, md), !.ui.adjustSeps = TRUE]

\* user_interface::edit(unicode c, modes m)
edit_as(m, c, md) ==
    edit_finish(
        edit_closing(
            edit_space(insert_adjust(rt_insert(m, m.ui.cursor, <<c>>),
                                     m.ui.select, m.ui.cursor),
                       c, md, m.ui.cursor, m.ui.mode),
            c, md),
        c, md)

edit(m, c, md) ==
    edit_as(m, c, IF editing(m) > 0 THEN m.ui.mode ELSE md)

\* Classes of code points
Digits     == {"0", "1", "2", "3", "4", "5", "6", "7", "8", "9"}
UpperCase  == {"A", "B", "C", "D", "E", "F", "G", "H", "I", "J", "K", "L",
               "M", "N", "O", "P", "Q", "R", "S", "T", "U", "V", "W", "X",
               "Y", "Z"}
LowerCase  == {"a", "b", "c", "d", "e", "f", "g", "h", "i", "j", "k", "l",
               "m", "n", "o", "p", "q", "r", "s", "t", "u", "v", "w", "x",
               "y", "z"}

\* The names of the language begin with a letter and go on with letters
\* and digits
is_valid_as_name_initial(code) == code \in UpperCase \cup LowerCase
is_valid_in_name(code) == code \in UpperCase \cup LowerCase \cup Digits

\* updateMode: the counters before the scan; num is the offset where the
\* number under the cursor begins, -1 for nullptr
scan_init ==
    [progs |-> 0, lists |-> 0, algs |-> 0, txts |-> 0, cmts |-> 0,
     vecs |-> 0, based |-> 0, syms |-> FALSE, inum |-> 0, fnum |-> 0,
     hnum |-> 0, num |-> -1]

\* updateMode: what one code point outside texts and comments does to the
\* counters of the number
scan_number(s, code, p) ==
    IF (s.inum > 0 \/ s.fnum > 0)
       /\ code \in {Settings.exponent_mark, "-"}
    THEN s
    ELSE IF code \in {Settings.space, Settings.space_based}
    THEN [s EXCEPT !.num = IF @ = -1 THEN p ELSE @]
    ELSE IF s.based > 0
    THEN IF code \notin Digits \cup UpperCase \cup LowerCase
         THEN [s EXCEPT !.based = 0]
         ELSE [s EXCEPT !.num = IF @ = -1 THEN p ELSE @, !.hnum = @ + 1]
    ELSE IF ~s.syms /\ code \in Digits
    THEN [s EXCEPT !.num = IF @ = -1 THEN p ELSE @,
                   !.fnum = IF s.fnum > 0 THEN @ + 1 ELSE @,
                   !.inum = IF s.fnum > 0 THEN @ ELSE @ + 1]
    ELSE IF code = Settings.decimal_mark
    THEN [s EXCEPT !.num = IF @ = -1 THEN p ELSE @, !.fnum = 1]
    ELSE IF code = "@"
    THEN [s EXCEPT !.cmts = @ + 1]
    ELSE [s EXCEPT !.based = 0, !.inum = 0, !.fnum = 0, !.hnum = 0,
                   !.num = -1,
                   !.syms = IF is_valid_as_name_initial(code) THEN TRUE
                            ELSE IF @ /\ ~is_valid_in_name(code) THEN FALSE
                            ELSE @]

\* updateMode: the switch on the delimiters
scan_delimiter(s, code) ==
    CASE code = "'"        -> [s EXCEPT !.algs = 1 - @]
      [] code = "\""       -> [s EXCEPT !.txts = 1 - @]
      [] code = "{"        -> [s EXCEPT !.lists = @ + 1]
      [] code = "}"        -> [s EXCEPT !.lists = @ - 1]
      [] code = "["        -> [s EXCEPT !.vecs = @ + 1]
      [] code = "]"        -> [s EXCEPT !.vecs = @ - 1]
      [] code = "{U+00AB}" -> [s EXCEPT !.progs = @ + 1]
      [] code = "{U+00BB}" -> [s EXCEPT !.progs = @ - 1]
      [] code = "#"        -> [s EXCEPT !.based = @ + 1, !.hnum = 0,
                                        !.inum = 0, !.syms = FALSE,
                                        !.num = -1]
      [] OTHER             -> s

scan_step(s, code, p) ==
    IF s.txts = 0 /\ s.cmts = 0
    THEN scan_delimiter(scan_number(s, code, p), code)
    ELSE IF s.txts # 0 /\ code = "\"" THEN [s EXCEPT !.txts = 1 - @]
    ELSE IF s.cmts # 0 /\ code = "\n" THEN [s EXCEPT !.cmts = 0]
    ELSE s

\* updateMode: the scan of the editor from offset p to the cursor
RECURSIVE scan(_, _, _, _)
scan(ed, p, cursor, s) ==
    IF p >= cursor \/ p >= Len(ed) THEN s
    ELSE scan(ed, p + 1, cursor, scan_step(s, At(ed, p), p))

\* updateMode: the mode the counters give
scan_mode(s) ==
    IF s.txts # 0 THEN "TEXT"
    ELSE IF s.based # 0 THEN "BASED"
    ELSE IF s.algs # 0 THEN "ALGEBRAIC"
    ELSE IF s.vecs # 0 THEN "MATRIX"
    ELSE IF s.lists # 0 \/ s.progs # 0 THEN "PROGRAM"
    ELSE "DIRECT"

\* updateMode: whether a code point belongs to the number being edited
isnum(code) ==
    \/ code \in Digits \cup UpperCase \cup LowerCase
    \/ code \in {"+", "-", "#", Settings.decimal_mark}

\* updateMode: the first loop, which removes the separators of the number
\* that begins at offset o; m.o is where the number ends, m.frpos the
\* offset after the decimal mark (0 when there is none)
RECURSIVE strip_number(_, _, _)
strip_number(m, o, frpos) ==
    IF o >= editing(m) THEN [m EXCEPT !.o = o, !.frpos = frpos]
    ELSE IF At(m.rt.editor, o) \in {Settings.space, Settings.space_based}
    THEN strip_number(remove(m, o, 1), o, frpos)
    ELSE IF ~isnum(At(m.rt.editor, o))
    THEN [m EXCEPT !.o = o, !.frpos = frpos]
    ELSE strip_number(m, o + 1,
                      IF At(m.rt.editor, o) = Settings.decimal_mark
                      THEN o + 1 ELSE frpos)

\* updateMode: one separator inserted at an offset; the cursor follows
\* when it is beyond
separator_inserted(m, at) ==
    IF m.n > 0 /\ m.ui.cursor > at THEN cursor_add(m) ELSE m

\* updateMode: the separators of the fractional part, every sf digits
RECURSIVE fraction_separators(_, _, _, _)
fraction_separators(m, frpos, end, sf) ==
    IF frpos >= end THEN m
    ELSE IF editing(m) + 1 > MaxEd
    THEN rt_insert(m, frpos, <<Settings.space>>)
    ELSE fraction_separators(
             separator_inserted(rt_insert(m, frpos, <<Settings.space>>),
                                frpos),
             frpos + sf + 1, end + 1, sf)

\* updateMode: the separators of the integral part, every sp digits
\* leftwards from offset o
RECURSIVE mantissa_separators(_, _, _, _, _)
mantissa_separators(m, o, start, sp, spc) ==
    IF o <= start + sp THEN m
    ELSE IF editing(m) + 1 > MaxEd
    THEN rt_insert(m, o - sp, <<spc>>)
    ELSE mantissa_separators(
             separator_inserted(rt_insert(m, o - sp, <<spc>>), o - sp),
             o - sp, start, sp, spc)

\* updateMode: the separators put back once the number is stripped
adjust_fraction(m, sf) ==
    IF m.frpos # 0 /\ sf # 0
    THEN [fraction_separators(m, m.frpos + sf, m.o, sf)
             EXCEPT !.o = m.frpos - 1]
    ELSE IF m.frpos # 0 THEN [m EXCEPT !.o = m.frpos - 1]
    ELSE m

adjust_mantissa(m, start, sp, spc) ==
    IF sp # 0 THEN mantissa_separators(m, m.o, start, sp, spc) ELSE m

adjust_separators(m, s) ==
    IF (s.inum # 0 \/ s.fnum # 0 \/ s.hnum # 0) /\ s.num # -1
    THEN adjust_mantissa(
             adjust_fraction(strip_number(m, s.num, 0),
                             Settings.spacing_fraction),
             s.num,
             IF s.hnum # 0 THEN Settings.spacing_based
                           ELSE Settings.spacing_mantissa,
             IF s.hnum # 0 THEN Settings.space_based ELSE Settings.space)
    ELSE m

\* user_interface::updateMode, given the counters of the scan
update_mode(m, s) ==
    IF m.ui.adjustSeps
    THEN [adjust_separators([m EXCEPT !.ui.mode = scan_mode(s)], s)
             EXCEPT !.ui.adjustSeps = FALSE]
    ELSE [m EXCEPT !.ui.mode = scan_mode(s)]

updateMode(m) ==
    update_mode(m, scan(m.rt.editor, 0, m.ui.cursor, scan_init))

\* user_interface::clear_help
clear_help(m) ==
    [m EXCEPT !.ui.command = "nullptr", !.ui.help = Unbounded,
              !.ui.line = 0, !.ui.topic = 0, !.ui.follow = FALSE,
              !.ui.last = 0, !.ui.longpress = FALSE, !.ui.repeat = FALSE]

\* user_interface::clear_editor, before its call of clear_help
editor_cleared(m) ==
    [m EXCEPT !.rt.editor = <<>>, !.ui.cursor = 0, !.ui.select = Unbounded,
              !.ui.alpha = FALSE, !.ui.shift = FALSE, !.ui.xshift = FALSE,
              !.ui.lowercase = FALSE, !.ui.longpress = FALSE,
              !.ui.repeat = FALSE]

\* user_interface::clear_editor
clear_editor(m) == clear_help(editor_cleared(m))

\* What the stack holds: the object parsed from a command line, or the
\* result a function computed
Parsed(text) == [text |-> text]
Computed(id) == [text |-> <<id>>]

\* The number of arguments a command of the modelled keys takes
arguments(id) ==
    IF id \in {"Dup", "Drop", "sin", "asin"} THEN 1
    ELSE IF id = "Sto" THEN 2 ELSE 0

\* rt.push: the stack has room for MaxStack objects
push(m, obj) ==
    IF Len(m.rt.stack) >= MaxStack THEN [m EXCEPT !.err = "out_of_memory"]
    ELSE [m EXCEPT !.rt.stack = <<obj>> \o @]

\* obj->execute() for the object of a key: Dup and Drop act on the stack,
\* sin and asin replace the first level or reject it (m.env.exec), Sto
\* takes a value and a name or rejects them, the menus and the system
\* commands leave the stack alone
evaluate(m, id) ==
    IF Len(m.rt.stack) < arguments(id)
    THEN [m EXCEPT !.err = "too_few_arguments"]
    ELSE IF id = "Dup" THEN push(m, m.rt.stack[1])
    ELSE IF id = "Drop" THEN [m EXCEPT !.rt.stack = Tail(@)]
    ELSE IF id \in {"sin", "asin"}
    THEN IF m.env.exec = "error"
         THEN [m EXCEPT !.err = "bad_argument_type"]
         ELSE [m EXCEPT !.rt.stack = <<Computed(id)>> \o Tail(@)]
    ELSE IF id = "Sto"
    THEN IF m.env.exec = "error"
         THEN [m EXCEPT !.err = "bad_argument_type"]
         ELSE [m EXCEPT !.rt.stack = Tail(Tail(@))]
    ELSE m

execute(m, id) == evaluate([m EXCEPT !.ran = Append(@, id)], id)

\* cmds->execute() for a parsed command line: the objects of the modelled
\* keyboard's command lines evaluate to themselves
execute_program(m, text) ==
    push([m EXCEPT !.ran = Append(@, "program")], Parsed(text))

\* end_edit: the loop that removes the number separators outside of texts
RECURSIVE strip_spacing(_, _, _)
strip_spacing(m, o, text) ==
    IF o >= editing(m) THEN m
    ELSE IF At(m.rt.editor, o) = "\"" THEN strip_spacing(m, o + 1, ~text)
    ELSE IF ~text
            /\ At(m.rt.editor, o) \in {Settings.space, Settings.space_based}
    THEN strip_spacing(remove(m, o, 1), o, text)
    ELSE strip_spacing(m, o + 1, text)

\* end_edit: what it resets before it looks at the editor
end_edit_reset(m) ==
    [clear_help([m EXCEPT !.ui.alpha = FALSE, !.ui.shift = FALSE,
                          !.ui.xshift = FALSE, !.ui.last = 0])
        EXCEPT !.err = "none"]

\* end_edit: the command line is saved in the history as it is typed
history_saved(m) ==
    [m EXCEPT !.ui.history[m.ui.cmdIndex] = m.rt.editor]

\* end_edit: the command line parsed; m.saved tells that rt.save was called
end_edit_parsed(m, text) ==
    [execute_program(
         [clear_editor([m EXCEPT !.ui.cmdIndex = (@ + 1) % HISTORY])
             EXCEPT !.ui.editing = <<>>, !.parsed = "ok",
                    !.saved = TRUE], text)
        EXCEPT !.ret = TRUE]

\* end_edit: the command line did not parse (m.env.parse: the parser may
\* refuse any text, were it for lack of memory).  The parser leaves an
\* error and its position m.env.pos (-1: not in this text); rt.edit puts
\* the text back unless it finds no memory
end_edit_failed_cursor_only(m, text) ==
    IF m.env.mem = "edit_fails"
    THEN [m EXCEPT !.err = "out_of_memory", !.ui.cursor = 0,
                   !.ui.select = Unbounded, !.ret = FALSE,
                   !.parsed = "failed", !.pos = m.env.pos,
                   !.reopened = FALSE]
    ELSE [m EXCEPT !.err = "syntax", !.rt.editor = text,
                   !.parsed = "failed", !.pos = m.env.pos,
                   !.reopened = TRUE,
                   !.ui.cursor = IF m.env.pos >= 0 /\ m.env.pos <= Len(text)
                                 THEN m.env.pos ELSE @,
                   !.ret = FALSE]

end_edit_failed(m, text) ==
    IF m.env.mem = "edit_fails"
    THEN [m EXCEPT !.err = "out_of_memory", !.ui.cursor = 0,
                   !.ui.select = Unbounded, !.ret = FALSE,
                   !.parsed = "failed", !.pos = m.env.pos,
                   !.reopened = FALSE]
    ELSE [m EXCEPT !.err = "syntax", !.rt.editor = text,
                   !.parsed = "failed", !.pos = m.env.pos,
                   !.reopened = TRUE,
                   !.ui.cursor = IF m.env.pos >= 0 /\ m.env.pos <= Len(text)
                                 THEN m.env.pos ELSE @,
                   !.ui.select = IF m.env.pos >= 0 /\ m.env.pos <= Len(text)
                                 THEN m.env.pos ELSE @,
                   !.ret = FALSE]

\* end_edit: from rt.close_editor on.  When close_editor finds no memory
\* for the text object the editor stays as it is
end_edit_close(m) ==
    IF m.env.mem = "close_fails"
    THEN [m EXCEPT !.err = "out_of_memory", !.ret = TRUE,
                   !.parsed = "no_memory"]
    ELSE IF m.env.parse
    THEN end_edit_parsed([m EXCEPT !.rt.editor = <<>>], m.rt.editor)
    ELSE end_edit_failed([m EXCEPT !.rt.editor = <<>>], m.rt.editor)

\* user_interface::end_edit
end_edit_from(m) ==
    IF editing(m) > 0
    THEN end_edit_close(strip_spacing(history_saved(m), 0, FALSE))
    ELSE [m EXCEPT !.ret = TRUE]

\* m.ended keeps what end_edit returned
end_edit_returned(m) ==
    [m EXCEPT !.ended = IF m.ret THEN "true" ELSE "false"]

end_edit(m) == end_edit_returned(end_edit_from(end_edit_reset(m)))

\* edit_history: step back to the nearest command line of the history, h
\* slots having been looked at; rt.edit puts it in the editor unless it
\* finds no memory
\* (m.recalled keeps which)
RECURSIVE history_recalled(_, _)
history_recalled(m, h) ==
    IF h >= HISTORY THEN m
    ELSE IF m.ui.history[(m.ui.cmdIndex + HISTORY - 1) % HISTORY] # <<>>
    THEN [m EXCEPT !.ui.cmdIndex = (@ + HISTORY - 1) % HISTORY,
                   !.rt.editor =
                       IF m.env.mem = "edit_fails" THEN <<>>
                       ELSE m.ui.history[(m.ui.cmdIndex + HISTORY - 1)
                                             % HISTORY],
                   !.ui.cursor = 0, !.ui.select = Unbounded,
                   !.ui.xshift = FALSE, !.ui.shift = FALSE,
                   !.recalled = IF m.env.mem = "edit_fails"
                                THEN "no_memory" ELSE "loaded"]
    ELSE history_recalled(
             [m EXCEPT !.ui.cmdIndex = (@ + HISTORY - 1) % HISTORY], h + 1)

\* edit_history that looks for a command line from the current slot on
edit_history_from_current(m) ==
    IF editing(m) > 0
    THEN history_recalled([m EXCEPT !.ui.history[m.ui.cmdIndex] = m.rt.editor,
                                    !.rt.editor = <<>>,
                                    !.ui.cmdIndex = (@ + 1) % HISTORY], 0)
    ELSE history_recalled([m EXCEPT !.ui.cmdIndex = (@ + 1) % HISTORY], 0)

\* user_interface::edit_history: the command line being typed is kept in
\* the history first
edit_history(m) ==
    IF editing(m) > 0
    THEN history_recalled([m EXCEPT !.ui.history[m.ui.cmdIndex] = m.rt.editor,
                                    !.rt.editor = <<>>], 0)
    ELSE history_recalled(m, 0)


\* shift_plane(): 0 unshifted, 1 shifted, 2 second-shifted
shift_plane(u) == IF u.xshift THEN 2 ELSE IF u.shift THEN 1 ELSE 0

\* showingHelp(): a position in the help file is set
showingHelp(u) == u.help # Unbounded

\* defaultUnshiftedCommand, defaultShiftedCommand and
\* defaultSecondShiftedCommand for the modelled keys; "none" for 0
defaultCommand(plane, key) ==
    CASE plane = 0 /\ key = KEY_STO   -> "Sto"
      [] plane = 0 /\ key = KEY_SIN   -> "sin"
      [] plane = 0 /\ key = KEY_ENTER -> "Dup"
      [] plane = 0 /\ key = KEY_BSP   -> "Drop"
      [] plane = 1 /\ key = KEY_XEQ   -> "LoopsMenu"
      [] plane = 1 /\ key = KEY_STO   -> "ComplexMenu"
      [] plane = 1 /\ key = KEY_SIN   -> "asin"
      [] plane = 1 /\ key = KEY_BSP   -> "ClearThingsMenu"
      [] plane = 1 /\ key = KEY_EXIT  -> "Off"
      [] plane = 2 /\ key = KEY_XEQ   -> "EquationsMenu"
      [] plane = 2 /\ key = KEY_STO   -> "MemMenu"
      [] plane = 2 /\ key = KEY_SIN   -> "HyperbolicMenu"
      [] plane = 2 /\ key = KEY_BSP   -> "updir"
      [] plane = 2 /\ key = KEY_1     -> "DebugMenu"
      [] plane = 2 /\ key = KEY_EXIT  -> "SaveState"
      [] OTHER                        -> "none"

\* user_interface::object_for_key, with no function assigned to the keys
\* by a menu
object_for_key(m, key) ==
    IF key = 0 THEN "none" ELSE defaultCommand(shift_plane(m.ui), key)

\* obj->help(): the help topic of a command is its name
help_topic(id) == id

\* The help file: its topics in order; the position of a topic is its rank
HelpFile == <<"sin", "asin", "Dup", "Drop", "Off", "updir">>

topic_position(topic) ==
    CHOOSE i \in 0..(Len(HelpFile) - 1) : HelpFile[i + 1] = topic

\* load_help: the topic is found, its position is pushed on the history
topic_pushed(m, pos) ==
    IF m.ui.topics_history >= NUM_TOPICS
    THEN [m EXCEPT !.ui.help = pos, !.ui.line = 0,
                   !.ui.topics =
                       [i \in 0..(NUM_TOPICS - 1) |->
                           IF i = m.ui.topics_history - 1 THEN pos
                           ELSE IF i + 1 < NUM_TOPICS
                           THEN m.ui.topics[i + 1]
                           ELSE m.ui.topics[i]]]
    ELSE [m EXCEPT !.ui.help = pos, !.ui.line = 0,
                   !.ui.topics[m.ui.topics_history] = pos,
                   !.ui.topics_history = @ + 1]

\* user_interface::load_help: m.env.help tells whether the help file can
\* be opened
load_help(m, topic) ==
    IF m.env.help = "missing"
    THEN [m EXCEPT !.ui.command = "nullptr", !.ui.follow = FALSE,
                   !.ui.help = Unbounded, !.ui.line = 0,
                   !.loaded = "missing"]
    ELSE IF \E i \in 1..Len(HelpFile) : HelpFile[i] = topic
    THEN topic_pushed([m EXCEPT !.ui.command = "nullptr",
                                !.ui.follow = FALSE, !.loaded = "found"],
                      topic_position(topic))
    ELSE [m EXCEPT !.ui.command = "nullptr", !.ui.follow = FALSE,
                   !.err = "No help for topic", !.loaded = "absent"]

\* user_interface::noHelpForKey
noHelpForKey(m, key) ==
    IF key \in {KEY_ENTER, KEY_BSP} THEN editing(m) > 0
    ELSE IF m.ui.alpha /\ key < KEY_F1 THEN TRUE
    ELSE IF /\ editing(m) > 0
            /\ \/ key \in {KEY_UP, KEY_DOWN, KEY_RUN}
               \/ m.ui.mode = "BASED" /\ key >= KB_A /\ key <= KB_F
    THEN TRUE
    ELSE /\ ~m.ui.shift /\ ~m.ui.xshift
         /\ key > KEY_ENTER /\ key < KEY_ADD
         /\ key \notin {KEY_SUB, KEY_MUL, KEY_DIV, KEY_RUN}

\* handle_help: after load_help, an error means the key is forgotten
help_loaded(m) ==
    IF m.err # "none"
    THEN [m EXCEPT !.key = 0, !.ui.last = 0, !.ret = TRUE]
    ELSE [m EXCEPT !.ret = TRUE]

\* handle_help while no help is shown, for a key that is pressed
help_for_key(m) ==
    IF noHelpForKey(m, m.key) THEN [m EXCEPT !.ret = FALSE]
    ELSE IF object_for_key(m, m.key) # "none"
    THEN IF m.ui.longpress
         THEN help_loaded(
                  load_help([m EXCEPT !.ui.command =
                                help_topic(object_for_key(m, m.key))],
                            help_topic(object_for_key(m, m.key))))
         ELSE [m EXCEPT !.ui.command = help_topic(object_for_key(m, m.key)),
                        !.ui.repeat = TRUE, !.ret = TRUE]
    ELSE [m EXCEPT !.key = IF editing(m) = 0 THEN 0 ELSE @, !.ret = FALSE]

\* handle_help while no help is shown, for the release of a key
help_for_release(m) ==
    [m EXCEPT !.key = IF ~noHelpForKey(m, m.ui.last) THEN m.ui.last ELSE @,
              !.ui.last = 0, !.ret = FALSE]

\* handle_help while help is shown, as if a key without a meaning in the
\* help browser were left to the next handlers
help_key_passes_other_keys(m) ==
    IF m.key = KEY_ENTER THEN [m EXCEPT !.ui.follow = TRUE, !.ret = TRUE]
    ELSE IF m.key = KEY_BSP /\ m.ui.topics_history > 1
    THEN [m EXCEPT !.ui.topics_history = @ - 1,
                   !.ui.help = m.ui.topics[m.ui.topics_history - 2],
                   !.ui.line = 0, !.ret = TRUE]
    ELSE IF m.key = KEY_BSP
    THEN [clear_help([m EXCEPT !.ui.topics_history = Max(0, @ - 1)])
             EXCEPT !.ret = TRUE]
    ELSE IF m.key = KEY_EXIT THEN [clear_help(m) EXCEPT !.ret = TRUE]
    ELSE [m EXCEPT !.ret = FALSE]

\* handle_help while help is shown, for the modelled keys: ENTER follows a
\* link, BSP goes back in the history of topics or leaves, EXIT leaves
help_key(m) ==
    IF m.key = KEY_ENTER THEN [m EXCEPT !.ui.follow = TRUE, !.ret = TRUE]
    ELSE IF m.key = KEY_BSP /\ m.ui.topics_history > 1
    THEN [m EXCEPT !.ui.topics_history = @ - 1,
                   !.ui.help = m.ui.topics[m.ui.topics_history - 2],
                   !.ui.line = 0, !.ret = TRUE]
    ELSE IF m.key = KEY_BSP
    THEN [clear_help([m EXCEPT !.ui.topics_history = Max(0, @ - 1)])
             EXCEPT !.ret = TRUE]
    ELSE IF m.key = KEY_EXIT THEN [clear_help(m) EXCEPT !.ret = TRUE]
    ELSE [m EXCEPT !.ret = TRUE]

\* user_interface::handle_help
handle_help(m) ==
    IF showingHelp(m.ui) THEN help_key(m)
    ELSE IF m.ui.last = KEY_SHIFT THEN [m EXCEPT !.ret = FALSE]
    ELSE IF m.key # 0 THEN help_for_key(m)
    ELSE help_for_release(m)

\* handle_shifts: the transient alpha of the arrow keys held down
\* (talpha); m.ret tells that handle_shifts returns here, m.consumed what
\* it returns
transient_alpha(m, talpha) ==
    IF ~m.ui.transalpha
    THEN IF talpha
         THEN IF m.key \in {KEY_UP, KEY_DOWN}
              THEN IF m.ui.xshift
                   THEN [m EXCEPT !.ret = TRUE, !.consumed = FALSE]
                   ELSE IF m.ui.longpress
                   THEN [m EXCEPT !.ui.repeat = TRUE, !.ret = TRUE,
                                  !.consumed = FALSE]
                   ELSE [m EXCEPT !.ui.last = m.key, !.ui.repeat = TRUE,
                                  !.ui.lowercase = (m.key = KEY_DOWN),
                                  !.ret = TRUE, !.consumed = TRUE]
              ELSE IF m.key # 0
              THEN [m EXCEPT !.ui.alpha = TRUE, !.ui.transalpha = TRUE,
                             !.ui.last = 0, !.ret = TRUE,
                             !.consumed = FALSE]
              ELSE [m EXCEPT !.key = 0, !.ui.last = 0, !.ret = TRUE,
                             !.consumed = TRUE]
         ELSE IF m.key = 0 /\ m.ui.last \in {KEY_UP, KEY_DOWN}
         THEN [m EXCEPT !.key = IF ~m.ui.longpress THEN m.ui.last ELSE @,
                        !.ui.last = 0, !.ret = TRUE, !.consumed = FALSE]
         ELSE [m EXCEPT !.ret = FALSE]
    ELSE IF ~talpha
    THEN [m EXCEPT !.ui.transalpha = FALSE, !.ui.alpha = FALSE,
                   !.ui.lowercase = FALSE, !.key = 0, !.ui.last = 0,
                   !.ret = TRUE, !.consumed = TRUE]
    ELSE IF m.key \in {KEY_UP, KEY_DOWN, 0}
    THEN [m EXCEPT !.ui.last = 0, !.ret = TRUE, !.consumed = TRUE]
    ELSE [m EXCEPT !.ret = FALSE]

\* SHM(d, x, s), and the planes of nextShift and nextXShift
SHM(d, x, s) == (IF d THEN 4 ELSE 0) + (IF x THEN 2 ELSE 0)
                + (IF s THEN 1 ELSE 0)
nextShift  == {SHM(FALSE, FALSE, FALSE), SHM(FALSE, TRUE, FALSE),
               SHM(TRUE, FALSE, FALSE)}
nextXShift == {SHM(FALSE, FALSE, TRUE), SHM(FALSE, TRUE, FALSE),
               SHM(FALSE, TRUE, TRUE), SHM(TRUE, FALSE, TRUE)}

\* handle_shifts: the SHIFT key, as if shift stayed set when the second
\* press sets xshift
shift_key_keeps_shift(m) ==
    IF m.ui.longpress
    THEN [m EXCEPT !.ui.alpha = ~@, !.ui.xshift = FALSE,
                   !.ui.shift = FALSE, !.consumed = TRUE]
    ELSE IF m.ui.xshift
    THEN [m EXCEPT !.ui.xshift = FALSE, !.consumed = TRUE]
    ELSE [m EXCEPT !.ui.shift =
                       \/ m.ui.shift
                       \/ SHM(m.ui.last = KEY_SHIFT, FALSE, m.ui.shift)
                              \in nextShift,
                   !.ui.xshift =
                       SHM(m.ui.last = KEY_SHIFT, FALSE, m.ui.shift)
                           \in nextXShift,
                   !.ui.repeat = TRUE, !.consumed = TRUE]

\* handle_shifts: the SHIFT key, as if a second press returned to no shift
shift_key_without_second_shift(m) ==
    IF m.ui.longpress
    THEN [m EXCEPT !.ui.alpha = ~@, !.ui.xshift = FALSE,
                   !.ui.shift = FALSE, !.consumed = TRUE]
    ELSE IF m.ui.xshift \/ m.ui.shift
    THEN [m EXCEPT !.ui.xshift = FALSE, !.ui.shift = FALSE,
                   !.consumed = TRUE]
    ELSE [m EXCEPT !.ui.shift = TRUE, !.ui.repeat = TRUE,
                   !.consumed = TRUE]

\* handle_shifts: the SHIFT key
shift_key(m) ==
    IF m.ui.longpress
    THEN [m EXCEPT !.ui.alpha = ~@, !.ui.xshift = FALSE,
                   !.ui.shift = FALSE, !.consumed = TRUE]
    ELSE IF m.ui.xshift
    THEN [m EXCEPT !.ui.xshift = FALSE, !.consumed = TRUE]
    ELSE [m EXCEPT !.ui.shift =
                       SHM(m.ui.last = KEY_SHIFT, FALSE, m.ui.shift)
                           \in nextShift,
                   !.ui.xshift =
                       SHM(m.ui.last = KEY_SHIFT, FALSE, m.ui.shift)
                           \in nextXShift,
                   !.ui.repeat = TRUE, !.consumed = TRUE]

\* handle_shifts: shift ENTER, as if it only switched alpha on and off
alpha_cycle_on_off(m) ==
    [m EXCEPT !.ui.alpha = ~m.ui.alpha, !.ui.lowercase = FALSE,
              !.ui.shift = FALSE, !.key = 0, !.ui.last = 0,
              !.consumed = TRUE]

\* handle_shifts: shift ENTER cycles ABC -> abc -> no alpha
alpha_cycle(m) ==
    [m EXCEPT !.ui.alpha = IF m.ui.alpha THEN ~m.ui.lowercase ELSE TRUE,
              !.ui.lowercase = IF m.ui.alpha THEN ~m.ui.lowercase ELSE FALSE,
              !.ui.shift = FALSE, !.key = 0, !.ui.last = 0,
              !.consumed = TRUE]

\* handle_shifts: the end, last = key for a key still there
shifts_done(m) ==
    [m EXCEPT !.ui.last = IF m.key # 0 THEN m.key ELSE @,
              !.ret = m.consumed]

\* handle_shifts, once the transient alpha is dealt with
shifts_from(m) ==
    IF m.ret THEN [m EXCEPT !.ret = m.consumed]
    ELSE IF m.key = KEY_SHIFT
    THEN shifts_done(shift_key([m EXCEPT !.consumed = FALSE]))
    ELSE IF m.ui.shift /\ m.key = KEY_ENTER
    THEN shifts_done(alpha_cycle([m EXCEPT !.consumed = FALSE]))
    ELSE shifts_done([m EXCEPT !.consumed = FALSE])

\* user_interface::handle_shifts
handle_shifts(m, talpha) == shifts_from(transient_alpha(m, talpha))

\* menu(menu_p, uint): menuStack moved one entry down, the last entry
\* falling off, and the menu put on top
menu_pushed(m, mid, page) ==
    [m EXCEPT !.ui.menuStack = [i \in 0..(MenuHistory - 1) |->
                                   IF i = 0 THEN mid
                                   ELSE m.ui.menuStack[i - 1]],
              !.ui.menuPage = page]

\* user_interface::menu(menu_p menu, uint page); mid is "object" for
\* nullptr
menu(m, mid, page) ==
    IF mid # m.ui.menuStack[0] THEN menu_pushed(m, mid, page) ELSE m

\* user_interface::clear_menu
clear_menu(m) == menu(m, "object", 0)

\* menu_pop: menuStack moved one entry up, the last entry emptied
menu_shifted(s) ==
    [i \in 0..(MenuHistory - 1) |->
        IF i = MenuHistory - 1 THEN "object" ELSE s[i + 1]]

\* menu_pop: the loop that puts the popped menu in the first empty entry
\* from index 1 on
RECURSIVE menu_kept(_, _, _)
menu_kept(s, current, i) ==
    IF i >= MenuHistory THEN s
    ELSE IF s[i] = "object" THEN [s EXCEPT ![i] = current]
    ELSE menu_kept(s, current, i + 1)

\* menu_pop that forgets the menu it pops
menu_pop_forgets(m) ==
    [m EXCEPT !.ui.menuStack = menu_shifted(m.ui.menuStack),
              !.ui.menuPage = 0]

\* user_interface::menu_pop
menu_pop(m) ==
    [m EXCEPT !.ui.menuStack = menu_kept(menu_shifted(m.ui.menuStack),
                                         m.ui.menuStack[0], 1),
              !.ui.menuPage = 0]

\* handle_editing: BSP while editing erases on the left of the cursor, or
\* with shift on its right
editing_bsp(m) ==
    IF m.ui.shift /\ m.ui.cursor < editing(m)
    THEN remove([m EXCEPT !.ui.repeat = TRUE], m.ui.cursor, 1)
    ELSE IF ~m.ui.shift /\ m.ui.cursor > 0
    THEN remove([m EXCEPT !.ui.repeat = TRUE, !.ui.cursor = @ - 1],
                m.ui.cursor - 1, 1)
    ELSE [m EXCEPT !.ui.repeat = FALSE]

\* BSP that lets the editor close when the last character goes
editing_bsp_closes(m) ==
    [m EXCEPT !.ui.adjustSeps = TRUE, !.ui.last = 0, !.ret = TRUE]

\* handle_editing: the editor stays open when the last character goes
editing_bsp_done(m) ==
    [(IF editing(m) = 0
      THEN edit([m EXCEPT !.ui.adjustSeps = TRUE], " ", "DIRECT")
      ELSE [m EXCEPT !.ui.adjustSeps = TRUE])
        EXCEPT !.ui.last = 0, !.ret = TRUE]

\* EXIT while editing that forgets the object that was being edited
editing_exit_drops_object(m) ==
    IF m.ui.shift \/ m.ui.xshift THEN [m EXCEPT !.ret = FALSE]
    ELSE IF m.err # "none" THEN [m EXCEPT !.err = "none", !.ret = TRUE]
    ELSE [clear_editor(m) EXCEPT !.ui.editing = <<>>, !.ret = TRUE]

\* handle_editing: EXIT while editing clears the error if there is one,
\* else clears the editor and puts back the object that was being edited
editing_exit(m) ==
    IF m.ui.shift \/ m.ui.xshift THEN [m EXCEPT !.ret = FALSE]
    ELSE IF m.err # "none" THEN [m EXCEPT !.err = "none", !.ret = TRUE]
    ELSE IF m.ui.editing # <<>>
    THEN [push(clear_editor(m), m.ui.editing[1])
             EXCEPT !.ui.editing = <<>>, !.ret = TRUE]
    ELSE [clear_editor(m) EXCEPT !.ret = TRUE]

\* handle_editing: UP while editing; with shift the cursor goes up a line
\* when the editor is drawn
editing_up(m) ==
    IF m.ui.shift THEN [m EXCEPT !.ui.repeat = TRUE, !.ret = TRUE]
    ELSE IF m.ui.xshift
    THEN [edit_history([m EXCEPT !.ui.repeat = TRUE]) EXCEPT !.ret = TRUE]
    ELSE IF m.ui.cursor > 0
    THEN [m EXCEPT !.ui.cursor = @ - 1, !.ui.repeat = TRUE, !.ret = TRUE]
    ELSE [m EXCEPT !.ui.repeat = FALSE, !.ret = TRUE]

\* handle_editing: DOWN while editing
editing_down(m) ==
    IF m.ui.shift THEN [m EXCEPT !.ui.repeat = TRUE, !.ret = TRUE]
    ELSE IF m.ui.xshift THEN [m EXCEPT !.ui.repeat = TRUE, !.ret = FALSE]
    ELSE IF m.ui.cursor < editing(m)
    THEN [m EXCEPT !.ui.cursor = @ + 1, !.ui.repeat = TRUE, !.ret = TRUE]
    ELSE [m EXCEPT !.ui.repeat = FALSE, !.ret = TRUE]

\* obj->edit(): the text of the object becomes the text of the editor,
\* unless there is no memory for it
object_edit(m, obj) ==
    IF m.env.mem = "edit_fails" THEN m
    ELSE [m EXCEPT !.rt.editor = obj.text]

\* handle_editing: DOWN while not editing takes the first level of the
\* stack and edits it
stack_edit(m) ==
    IF ~m.ui.shift /\ ~m.ui.xshift /\ ~m.ui.alpha /\ Len(m.rt.stack) > 0
    THEN [object_edit([m EXCEPT !.rt.stack = Tail(@),
                                !.ui.editing = <<m.rt.stack[1]>>,
                                !.opened = TRUE],
                      m.rt.stack[1])
             EXCEPT !.ret = TRUE]
    ELSE [m EXCEPT !.ret = FALSE]

\* handle_editing: XEQ begins an algebraic object, or opens a parenthesis
\* in one
editing_xeq(m) ==
    [edit(m, IF editing(m) > 0 /\ m.ui.mode = "ALGEBRAIC" THEN "(" ELSE "'",
          "ALGEBRAIC")
        EXCEPT !.ui.last = 0, !.ret = TRUE]

\* user_interface::handle_editing for the modelled keys.  The search
\* (searching) is not entered from these keys
handle_editing(m) ==
    IF /\ ~m.ui.alpha /\ m.key = KEY_XEQ
       /\ (editing(m) = 0 \/ m.ui.mode # "BASED")
       /\ ~m.ui.shift /\ ~m.ui.xshift
    THEN editing_xeq(m)
    ELSE IF editing(m) > 0
    THEN IF m.key = KEY_BSP
         THEN IF m.ui.xshift THEN [m EXCEPT !.ret = FALSE]
              ELSE editing_bsp_done(editing_bsp(m))
         ELSE IF m.key = KEY_ENTER /\ ~m.ui.shift /\ ~m.ui.xshift
         THEN [end_edit(m) EXCEPT !.ret = TRUE]
         ELSE IF m.key \in {KEY_ENTER, KEY_EXIT} THEN editing_exit(m)
         ELSE IF m.key = KEY_UP THEN editing_up(m)
         ELSE IF m.key = KEY_DOWN THEN editing_down(m)
         ELSE [m EXCEPT !.ret = FALSE]
    ELSE IF m.key = KEY_ENTER /\ m.ui.xshift
    THEN [edit(m, "\"", "TEXT") EXCEPT !.ui.alpha = TRUE, !.ret = TRUE]
    ELSE IF m.key = KEY_EXIT /\ ~m.ui.shift /\ ~m.ui.xshift
    THEN [clear_menu([m EXCEPT !.ui.alpha = FALSE]) EXCEPT !.ret = TRUE]
    ELSE IF m.key = KEY_DOWN THEN stack_edit(m)
    ELSE IF m.key = KEY_UP /\ m.ui.xshift
    THEN [edit_history(m) EXCEPT !.ret = TRUE]
    ELSE [m EXCEPT !.ret = FALSE]

\* handle_alpha: the tables of characters, indexed by key - 1
upper ==
    <<"A", "B", "C", "D", "E", "F",
      "G", "H", "I", "J", "K", "L",
      "_", "M", "N", "O", "_",
      "_", "P", "Q", "R", "S",
      "_", "T", "U", "V", "W",
      "_", "X", "Y", "Z", "_",
      "_", ":", ",", " ", ";">>

lower ==
    <<"a", "b", "c", "d", "e", "f",
      "g", "h", "i", "j", "k", "l",
      "_", "m", "n", "o", "_",
      "_", "p", "q", "r", "s",
      "_", "t", "u", "v", "w",
      "_", "x", "y", "z", "_",
      "_", ":", ",", " ", ";">>

shifted ==
    <<"{U+03A3}", "^", "{U+221A}", "{U+2202}", "{U+03C1}", "(",
      "{U+25B6}", "%", "{U+03C0}", "<", "=", ">",
      "_", "{U+21C4}", "{U+00B1}", "{U+2073}", "_",
      "_", "7", "8", "9", "{U+00F7}",
      "_", "4", "5", "6", "{U+00D7}",
      "_", "1", "2", "3", "-",
      "_", "0", ".", "{U+00AB}", "+">>

xshifted ==
    <<"{U+220F}", "{U+2206}", "{U+2191}", "{U+03BC}", "{U+03B8}", "'",
      "{U+2192}", "{U+2190}", "{U+2193}", "{U+2264}", "{U+2260}",
      "{U+2265}",
      "\"", "~", "{U+00B0}", "{U+03B5}", "\n",
      "_", "?", "{U+222B}", "[", "/",
      "_", "#", "{U+221E}", "|", "*",
      "_", "&", "@", "$", "{U+2026}",
      "_", ";", "{U+00B7}", "{", "!">>

\* handle_alpha: the character of a key
alpha_char(m, hex) ==
    IF hex THEN upper[m.key]
    ELSE IF m.ui.xshift THEN xshifted[m.key]
    ELSE IF m.ui.shift THEN shifted[m.key]
    ELSE IF m.ui.lowercase THEN lower[m.key]
    ELSE upper[m.key]

alpha_typed(m, c) ==
    [edit(m, c, "TEXT") EXCEPT !.ui.alpha = IF c = "\"" THEN TRUE ELSE @,
                               !.ui.repeat = TRUE, !.ret = TRUE]

\* user_interface::handle_alpha.  The catalog of KEY_ADD is not among the
\* modelled keys
handle_alpha(m) ==
    IF m.key = 0 \/ (m.key >= KEY_F1 /\ m.key <= KEY_F6)
    THEN [m EXCEPT !.ret = FALSE]
    ELSE IF /\ ~m.ui.alpha
            /\ ~(editing(m) > 0 /\ m.ui.mode = "BASED"
                 /\ m.key >= KB_A /\ m.key <= KB_F)
            /\ ~(m.ui.xshift /\ (m.key = KEY_ENTER
                                 \/ (m.key = KEY_BSP /\ editing(m) > 0)))
    THEN [m EXCEPT !.ret = FALSE]
    ELSE alpha_typed(m, alpha_char(m,
                                   editing(m) > 0 /\ m.ui.mode = "BASED"
                                   /\ m.key >= KB_A /\ m.key <= KB_F))

\* handle_digits: the table of characters, indexed by key - 1
numbers ==
    <<"_", "_", "_", "_", "_", "_",
      "_", "_", "_", "_", "_", "_",
      "_", "_", "-", "_", "_",
      "_", "7", "8", "9", "_",
      "_", "4", "5", "6", "_",
      "_", "1", "2", "3", "_",
      "_", "0", ".", "_", "_">>

\* user_interface::handle_digits.  KEY_CHS and KEY_E are not among the
\* modelled keys
handle_digits(m) ==
    IF m.ui.alpha \/ m.ui.shift \/ m.ui.xshift \/ m.key = 0
    THEN [m EXCEPT !.ret = FALSE]
    ELSE IF m.key > KEY_CHS /\ m.key < KEY_F1 /\ numbers[m.key] # "_"
    THEN [edit(m, IF numbers[m.key] = "." THEN Settings.decimal_mark
                  ELSE numbers[m.key], "DIRECT")
             EXCEPT !.ui.repeat = TRUE, !.ret = TRUE]
    ELSE [m EXCEPT !.ret = FALSE]

\* object::is_immediate, from the FLAGS of ids.tbl
is_immediate(id) == has_flag(FALSE, "is_immediate", id)

\* handle_functions: the object is executed
function_executed(m, id) ==
    [m EXCEPT !.ui.alpha = IF ~is_immediate(id) THEN FALSE ELSE @,
              !.ui.xshift = FALSE, !.ui.shift = FALSE, !.ret = TRUE]

\* handle_functions: rt.save() before a function that is not immediate is
\* executed with the editor closed
function_saved(m, id) ==
    IF ~is_immediate(id) /\ editing(m) = 0 THEN [m EXCEPT !.saved = TRUE]
    ELSE m

\* handle_functions: from draw_busy_cursor on
function_run(m, id) == function_executed(execute(function_saved(m, id), id), id)

\* After end_edit, a function that is run whatever end_edit returned
function_after_edit_always(m, id) == function_run([m EXCEPT !.ret = TRUE], id)

\* handle_functions: after end_edit closed the editor, or failed to
function_after_edit(m, id) ==
    IF ~m.ret THEN m ELSE function_run(m, id)

\* obj->insert(*this) in the modes PROGRAM and ALGEBRAIC: the text it puts
\* in the editor belongs to the object; its verdict is m.env.exec
function_inserted(m, id) == [m EXCEPT !.ret = (m.env.exec # "error")]

\* handle_functions: the switch on the mode of the editor
function_in_mode(m, id) ==
    CASE m.ui.mode = "PROGRAM" ->
            IF has_flag(FALSE, "is_command", id) THEN function_inserted(m, id)
            ELSE function_run(m, id)
      [] m.ui.mode = "ALGEBRAIC" ->
            IF has_flag(FALSE, "is_algebraic", id)
            THEN function_inserted(m, id)
            ELSE IF id = "Sto" THEN function_after_edit(end_edit(m), id)
            ELSE function_run(m, id)
      [] OTHER ->
            IF id # "SelfInsert" THEN function_after_edit(end_edit(m), id)
            ELSE function_run(m, id)

\* handle_functions for a key that has an object
function_for_key(m, id) ==
    IF editing(m) > 0 /\ ~is_immediate(id)
    THEN IF m.key \in {KEY_ENTER, KEY_BSP} THEN [m EXCEPT !.ret = FALSE]
         ELSE function_in_mode(m, id)
    ELSE function_run(m, id)

\* user_interface::handle_functions
handle_functions(m) ==
    IF m.key = 0 \/ object_for_key(m, m.key) = "none"
    THEN [m EXCEPT !.ret = FALSE]
    ELSE function_for_key([m EXCEPT !.ui.evaluating = m.key],
                          object_for_key(m, m.key))

\* key: the handlers in turn, until one returns true
after_functions(m) == IF m.ret THEN m ELSE [m EXCEPT !.ret = (m.key = 0)]
after_digits(m)    == IF m.ret THEN m ELSE after_functions(handle_functions(m))
after_alpha(m)     == IF m.ret THEN m ELSE after_digits(handle_digits(m))
after_editing(m)   == IF m.ret THEN m ELSE after_alpha(handle_alpha(m))
after_help(m)      == IF m.ret THEN m ELSE after_editing(handle_editing(m))
after_shifts(m)    == IF m.ret THEN m ELSE after_help(handle_help(m))

\* key: after the handlers, the shifts are dropped on the release of any
\* key but SHIFT
key_released(m, skey) ==
    [m EXCEPT !.ui.shift = IF skey = 0 /\ m.ui.last # KEY_SHIFT
                           THEN FALSE ELSE @,
              !.ui.xshift = IF skey = 0 /\ m.ui.last # KEY_SHIFT
                            THEN FALSE ELSE @,
              !.ui.command = IF skey = 0 THEN "nullptr" ELSE @]

key_handled(m, skey) ==
    key_released(IF editing(m) > 0 THEN updateMode(m) ELSE m, skey)

\* key: with an error pending, as if any key cleared the error
key_error_cleared_by_any(m) ==
    [m EXCEPT !.err = IF m.key # 0 THEN "none" ELSE @, !.ret = TRUE]

\* key: with an error pending
key_error(m) ==
    [m EXCEPT !.err = IF m.key \in {KEY_EXIT, KEY_ENTER, KEY_BSP}
                      THEN "none" ELSE @,
              !.ret = TRUE]

key_pressed(m, talpha) ==
    IF m.err # "none" THEN key_error(m)
    ELSE key_handled(after_shifts(handle_shifts(m, talpha)), m.key)

\* user_interface::key(key, repeating, talpha)
key(m, repeating, talpha) ==
    key_pressed([m EXCEPT !.ui.longpress = (m.key # 0 /\ repeating),
                          !.ui.repeat = FALSE],
                talpha)

(***************************************************************************)
(* The state machine of the keyboard: every step is one key event.         *)
(***************************************************************************)
\* What a key event may find outside the user interface: whether the
\* parser accepts the command line and where it reports its error, whether
\* the runtime finds memory to close or re-open the editor, whether a
\* function accepts its argument, whether the help file can be opened.
\* Only what the call can meet is varied: the help file is opened on a
\* long press, the editor is closed when it holds a text, a function
\* finds an argument when the stack or the editor holds one
Quiet == [parse |-> TRUE, pos |-> -1, mem |-> "ok", exec |-> "none",
          help |-> "present"]

Environments(repeating) ==
    {Quiet}
    \cup (IF repeating THEN {[Quiet EXCEPT !.help = "missing"]} ELSE {})
    \cup (IF Len(rt.stack) > 0 \/ Len(rt.editor) > 0
          THEN {[Quiet EXCEPT !.exec = "error"]} ELSE {})
    \cup (IF Len(rt.editor) > 0
          THEN {[Quiet EXCEPT !.mem = "close_fails"],
                [Quiet EXCEPT !.parse = FALSE, !.mem = "edit_fails"]}
               \cup {[Quiet EXCEPT !.parse = FALSE, !.pos = p] :
                        p \in -1..MaxEd}
          ELSE {})

\* The machine a key event starts from; opened tells that the event took
\* an object from the stack to edit it
Machine(k, env) ==
    [ui |-> ui, rt |-> rt, err |-> error, key |-> k, ret |-> FALSE,
     consumed |-> FALSE, n |-> 0, o |-> 0, frpos |-> 0, ran |-> <<>>,
     parsed |-> "none", pos |-> -1, reopened |-> FALSE, loaded |-> "none",
     ended |-> "none", opened |-> FALSE, recalled |-> "none",
     saved |-> FALSE, env |-> env]

\* The settings of the keyboard's state machine: a separator every second
\* digit
SpacingUI == 2

InitUI ==
    /\ yg = NULL
    /\ xg = NULL
    /\ Settings = [wordsize |-> 8, maxbignum |-> 16,
                   space |-> "{U+2009}", space_based |-> "{U+2008}",
                   decimal_mark |-> ".", exponent_mark |-> "{U+2073}",
                   spacing_mantissa |-> SpacingUI,
                   spacing_based |-> SpacingUI,
                   spacing_fraction |-> SpacingUI]
    /\ error = "none"
    /\ scratch = 0
    /\ last = NoOp
    /\ rnd = NoRenderer
    /\ Idle

\* The number of key events of a session
MaxEvents == 7

\* What the main loop gives key(): a key, or 0 for its release; repeating
\* for a key that is held down after a call that asked for a repeat;
\* talpha while an arrow key is held down
KeyEventWith(k, repeating, talpha, env) ==
    /\ last.events < MaxEvents
    /\ repeating => (k # 0 /\ last.op = "key" /\ last.key = k /\ ui.repeat)
    /\ \E r \in {key(Machine(k, env), repeating, talpha)} :
        /\ ui' = r.ui
        /\ rt' = r.rt
        /\ error' = r.err
        /\ last' = [NoOp EXCEPT !.op = "key", !.key = k,
                                !.repeating = repeating, !.ok = r.ret,
                                !.ran = r.ran, !.parsed = r.parsed,
                                !.pos = r.pos, !.reopened = r.reopened,
                                !.loaded = r.loaded, !.ended = r.ended,
                                !.plane = shift_plane(ui),
                                !.pending = error, !.prev = last.key,
                                !.was = ui.last,
                                !.before = IF r.opened THEN rt.stack
                                           ELSE IF r.ui.editing = <<>>
                                           THEN <<>> ELSE last.before,
                                !.recalled = r.recalled,
                                !.saved = r.saved,
                                !.typed = IF r.parsed = "ok" THEN rt.editor
                                          ELSE IF r.recalled # "none"
                                          THEN <<>> ELSE last.typed,
                                !.events = last.events + 1]
    /\ UNCHANGED <<yg, xg, Settings, scratch, rnd, Screen>>

\* A key event while no arrow key is held down
KeyEvent(k, repeating, env) == KeyEventWith(k, repeating, FALSE, env)

Press ==
    \E k \in Keys, env \in Environments(FALSE) : KeyEvent(k, FALSE, env)

Repeat ==
    \E k \in Keys, env \in Environments(TRUE) : KeyEvent(k, TRUE, env)

Release ==
    \E env \in Environments(FALSE) : KeyEvent(0, FALSE, env)

NextUI ==
    \/ Press
    \/ Repeat
    \/ Release

SpecUI == InitUI /\ [][NextUI]_vars


(***************************************************************************)
(* The state machine of the keys that edit the stack and recall the        *)
(* history: the arrow keys are among the keys, so that the event of their  *)
(* press may find them held down (talpha).                                 *)
(***************************************************************************)
\* The keys of this machine
EditKeys == {KEY_ENTER, KEY_UP, KEY_DOWN, KEY_SHIFT, KEY_1, KEY_EXIT}

\* What a key event of this machine may find: the parser may refuse the
\* command line, the runtime may find no memory to put a text in the editor
EditEnvironments ==
    {Quiet, [Quiet EXCEPT !.mem = "edit_fails"]}
    \cup (IF Len(rt.editor) > 0
          THEN {[Quiet EXCEPT !.parse = FALSE],
                [Quiet EXCEPT !.parse = FALSE, !.mem = "edit_fails"]}
          ELSE {})

\* An arrow key may be found held down (talpha) by the event of its own
\* press; it is released before the next event
HeldDown(k) == IF k \in {KEY_UP, KEY_DOWN} THEN BOOLEAN ELSE {FALSE}

\* The program starts with the stack its saved state holds: nothing, or
\* the number 1
InitEdit ==
    /\ yg = NULL
    /\ xg = NULL
    /\ Settings = [wordsize |-> 8, maxbignum |-> 16,
                   space |-> "{U+2009}", space_based |-> "{U+2008}",
                   decimal_mark |-> ".", exponent_mark |-> "{U+2073}",
                   spacing_mantissa |-> SpacingUI,
                   spacing_based |-> SpacingUI,
                   spacing_fraction |-> SpacingUI]
    /\ error = "none"
    /\ scratch = 0
    /\ last = NoOp
    /\ rnd = NoRenderer
    /\ rt \in {rt_init, [rt_init EXCEPT !.stack = <<Parsed(<<"1">>)>>]}
    /\ ui = ui_init
    /\ Screen = <<>>

PressEdit ==
    \E k \in EditKeys, env \in EditEnvironments :
        \E talpha \in HeldDown(k) : KeyEventWith(k, FALSE, talpha, env)

ReleaseEdit ==
    \E env \in EditEnvironments : KeyEventWith(0, FALSE, FALSE, env)

NextEdit ==
    \/ PressEdit
    \/ ReleaseEdit

SpecEdit == InitEdit /\ [][NextEdit]_vars

(***************************************************************************)
(* The keyboard with the keys that begin an algebraic object and store it: *)
(* the function keys pressed while the editor is in ALGEBRAIC mode.        *)
(***************************************************************************)
StoKeys == {KEY_XEQ, KEY_STO, KEY_SIN, KEY_1, KEY_ENTER, KEY_EXIT}

\* What a key event of these keys may find: the parser refusing the
\* command line, rt.edit finding no memory to put it back, a function
\* refusing its arguments or its insertion
StoEnvironments ==
    {Quiet}
    \cup (IF Len(rt.editor) > 0
          THEN {[Quiet EXCEPT !.parse = FALSE],
                [Quiet EXCEPT !.parse = FALSE, !.mem = "edit_fails"],
                [Quiet EXCEPT !.exec = "error"]}
          ELSE {})

PressSto ==
    \E k \in StoKeys, env \in StoEnvironments : KeyEvent(k, FALSE, env)

ReleaseSto == \E env \in StoEnvironments : KeyEvent(0, FALSE, env)

NextSto ==
    \/ PressSto
    \/ ReleaseSto

SpecSto == InitUI /\ [][NextSto]_vars

(***************************************************************************)
(* The state machine of the menus: every step selects a menu, clears the   *)
(* menu or pops the history of the menus.                                  *)
(***************************************************************************)
\* The menus that are selected, and the pages they are shown at
Menus == {"MainMenu", "StackMenu", "MemMenu"}
MaxPage == 1

MenuEvent(op, mid, page, r) ==
    /\ ui' = r.ui
    /\ last' = [NoOp EXCEPT !.op = op, !.menu = mid, !.page = page]
    /\ UNCHANGED <<yg, xg, Settings, error, scratch, rnd, rt, Screen>>

SelectMenu ==
    \E mid \in Menus, page \in 0..MaxPage :
        MenuEvent("menu", mid, page, menu(Machine(0, Quiet), mid, page))

ClearMenu ==
    MenuEvent("clear_menu", "object", 0, clear_menu(Machine(0, Quiet)))

PopMenu ==
    MenuEvent("menu_pop", ui.menuStack[0], 0, menu_pop(Machine(0, Quiet)))

NextMenu ==
    \/ SelectMenu
    \/ ClearMenu
    \/ PopMenu

SpecMenu == InitUI /\ [][NextMenu]_vars

(***************************************************************************)
(* graphics.cc: the command Clip.  Its argument is a list of up to four    *)
(* integers; a list is [type |-> "list", items |-> the sequence of its     *)
(* items].  In this state machine Screen is the state of the surface:      *)
(* [clip |-> <<x1, y1, x2, y2>>], the current clipping rectangle.          *)
(***************************************************************************)
\* A list of the items `items`
ListOf(items) == [type |-> "list", v |-> 0, items |-> items]

\* Screen.area(), modelled from the specification: the whole screen
Screen_area == <<0, 0, ScreenWidth - 1, ScreenHeight - 1>>

\* parm->as_int32(0, true), modelled from the specification: the value of
\* an integer, a type error and the default 0 for an object that is no
\* number
object_as_int32(parm) ==
    IF parm.type = "integer" THEN [result |-> parm.v, err |-> "none"]
    ELSE IF parm.type = "neg_integer"
    THEN [result |-> 0 - parm.v, err |-> "none"]
    ELSE [result |-> 0, err |-> "type"]

\* The loop of Clip over the items of the list from item `index` on (0 is
\* the first): clip is the rectangle so far
RECURSIVE clip_items(_, _, _)
clip_items(parms, index, clip) ==
    IF index >= Len(parms)
    THEN [result |-> "OK", err |-> "none", clip |-> clip]
    ELSE LET arg == object_as_int32(parms[index + 1])
         IN  IF arg.err # "none"
             THEN [result |-> "ERROR", err |-> arg.err, clip |-> clip]
             ELSE IF index > 3
             THEN [result |-> "ERROR", err |-> "value", clip |-> clip]
             ELSE clip_items(parms, index + 1,
                             [clip EXCEPT ![index + 1] = arg.result])

\* What Clip leaves: the result, the error raised, the stack, the surface
ClipOutcome(result, err, stack, screen) ==
    [result |-> result, err |-> err, stack |-> stack, screen |-> screen]

\* Mutant of Clip_body: the rectangle starts from the current clipping
\* rectangle
Clip_body_from_current(stack, screen) ==
    IF Len(stack) < 1
    THEN ClipOutcome("ERROR", "missing_argument", stack, screen)
    ELSE LET top == stack_at(stack, 0)
             popped == drop(stack, 1)
         IN  IF top.type = "list"
             THEN LET c == clip_items(top.items, 0, screen.clip)
                  IN  IF c.result = "OK"
                      THEN ClipOutcome("OK", "none", popped,
                                       [screen EXCEPT !.clip = c.clip])
                      ELSE ClipOutcome("ERROR", c.err, popped, screen)
             ELSE ClipOutcome("ERROR", "type", popped, screen)

\* COMMAND_BODY(Clip): the argument is popped, then checked; Screen.clip
\* is called once all the items were taken
Clip_body(stack, screen) ==
    IF Len(stack) < 1
    THEN ClipOutcome("ERROR", "missing_argument", stack, screen)
    ELSE LET top == stack_at(stack, 0)
             popped == drop(stack, 1)
         IN  IF top.type = "list"
             THEN LET c == clip_items(top.items, 0, Screen_area)
                  IN  IF c.result = "OK"
                      THEN ClipOutcome("OK", "none", popped,
                                       [screen EXCEPT !.clip = c.clip])
                      ELSE ClipOutcome("ERROR", c.err, popped, screen)
             ELSE ClipOutcome("ERROR", "type", popped, screen)

(***************************************************************************)
(* The state machine of Clip: a stack of up to ClipDepth arguments, then   *)
(* Clip for as long as no error is pending.                                *)
(***************************************************************************)
ClipDepth == 3

\* The items of the lists: integers, a negative integer, a text
ClipInt(v) == Scalar("integer", v)
ClipText == Scalar("text", 0)

\* The arguments: lists of 0 to 6 items, with and without an item that is
\* no integer, an integer, a text
ClipArguments ==
    {ListOf(<<>>),
     ListOf(<<ClipInt(10)>>),
     ListOf(<<ClipInt(10), ClipInt(20)>>),
     ListOf(<<Scalar("neg_integer", 5), ClipInt(20), ClipInt(300)>>),
     ListOf(<<ClipInt(30), ClipInt(30), ClipInt(370), ClipInt(150)>>),
     ListOf(<<ClipInt(1), ClipInt(2), ClipInt(3), ClipInt(4), ClipInt(5)>>),
     ListOf(<<ClipInt(1), ClipText, ClipInt(3)>>),
     ListOf(<<ClipInt(1), ClipInt(2), ClipInt(3), ClipInt(4), ClipText>>),
     ListOf(<<ClipInt(1), ClipInt(2), ClipInt(3), ClipInt(4), ClipInt(5),
              ClipText>>),
     ClipInt(7),
     ClipText}

ClipStacks == UNION {[1..n -> ClipArguments] : n \in 0..ClipDepth}

InitClip ==
    /\ yg = NULL
    /\ xg = NULL
    /\ Settings = [wordsize |-> 8, maxbignum |-> 16]
    /\ error = "none"
    /\ scratch = 0
    /\ last = NoOp
    /\ rnd = NoRenderer
    /\ \E stack \in ClipStacks : rt = [rt_init EXCEPT !.stack = stack]
    /\ ui = ui_init
    /\ Screen = [clip |-> Screen_area]

Clip ==
    /\ error = "none"
    /\ \E out \in {Clip_body(rt.stack, Screen)} :
          /\ last' = [NoOp EXCEPT !.op = "Clip", !.ok = (out.result = "OK"),
                          !.err = out.err]
          /\ error' = out.err
          /\ rt' = [rt EXCEPT !.stack = out.stack]
          /\ Screen' = out.screen
    /\ UNCHANGED <<yg, xg, Settings, scratch, rnd, ui>>

NextClip == Clip

SpecClip == InitClip /\ [][NextClip]_vars

(***************************************************************************)
(* The state machine of the conversions of one number: Init draws the      *)
(* number, the actions render it.                                          *)
(***************************************************************************)
\* The base and format RENDER_BODY gives render_num for each type: 10 and ""
\* or "-" for the signed types; for the based types Settings.base and "#",
\* or the base and format of the type itself under
\* CONFIG_FIXED_BASED_OBJECTS
Renderings(type) ==
    IF type = ID_bignum THEN {[base |-> 10, fmt |-> <<>>]}
    ELSE IF type = ID_neg_bignum THEN {[base |-> 10, fmt |-> <<"minus">>]}
    ELSE {[base |-> b, fmt |-> <<"hash">>] : b \in {2, 8, 10, 16}}
         \cup {[base |-> 16, fmt |-> <<"hash", "h">>],
               [base |-> 10, fmt |-> <<"hash", "d">>],
               [base |-> 8,  fmt |-> <<"hash", "o">>],
               [base |-> 2,  fmt |-> <<"hash", "b">>]}

\* Settings.spacing_mantissa / spacing_based: none, or a separator every
\* digit, every second or every third digit
Spacings == {0, 1, 2, 3}

\* The sizes of the buffers a number is rendered into
RenderLengths == {4, 24}

\* The renderers a number is rendered into
RenderSinks ==
    {make_renderer("buffer", length, flat) :
        length \in RenderLengths, flat \in BOOLEAN}
    \cup {make_renderer(kind, 0, flat) :
             kind \in {"scratchpad", "file"}, flat \in BOOLEAN}

\* Every put of the call found room: the buffer is not full, the scratchpad
\* not exhausted (for a file, by the text of the temporary renderer)
HadRoom(w) ==
    IF w.r.target THEN w.r.written < w.r.length
    ELSE IF w.r.saving THEN w.sp + Len(w.text) < ScratchSize
    ELSE w.sp < ScratchSize

\* y->render(r) on a renderer just made
Render ==
    /\ last.op = "none"
    /\ \E how \in Renderings(yg.type), r \in RenderSinks,
          spacing \in Spacings, mem \in {"ok", "alloc_fail"},
          junk \in JunkBytes :
          LET w == render_num(Call(r, scratch), yg, how.base, how.fmt,
                              spacing, mem, junk)
          IN  /\ last' = [NoOp EXCEPT !.op = "render", !.text = w.text,
                             !.base = how.base, !.fmt = how.fmt,
                             !.spacing = spacing, !.mem = mem,
                             !.room = HadRoom(w)]
              /\ rnd' = w.r
              /\ scratch' = w.sp
              /\ UNCHANGED <<yg, xg, Settings, error, rt, ui, Screen>>

\* The magnitudes of the small integers converted: 0 .. MaxSmall, and
\* 0x7F, 0x80, 0xFF, 0x100, 0x3FFF, 0x4000, 2^56 - 1, 2^56, 2^63 - 1, 2^63,
\* 2^64 - 1
IntegerValues ==
    {ularge_of(m) : m \in SmallMags}
    \cup {ularge_of(m) :
            m \in {<<127>>, <<128>>, <<255>>, <<0, 1>>, <<255, 63>>, <<0, 64>>,
                   <<255, 255, 255, 255, 255, 255, 255>>,
                   <<0, 0, 0, 0, 0, 0, 0, 1>>,
                   <<255, 255, 255, 255, 255, 255, 255, 127>>,
                   <<0, 0, 0, 0, 0, 0, 0, 128>>,
                   <<255, 255, 255, 255, 255, 255, 255, 255>>}}

\* Magnitudes of nine bytes: 2^64 and 2^72 - 1
WideMags == {<<0, 0, 0, 0, 0, 0, 0, 0, 1>>,
             <<255, 255, 255, 255, 255, 255, 255, 255, 255>>}

\* An integer is made a bignum of its sign, and the bignum an integer again
Convert ==
    /\ last.op = "none"
    /\ \E v \in [type : {ID_integer, ID_neg_integer}, value : IntegerValues],
          mem \in {"ok", "make_fail"} :
          LET big == bignum_from_integer(IF v.type = ID_neg_integer
                                         THEN ID_neg_bignum ELSE ID_bignum,
                                         v.value)
          IN  last' = [NoOp EXCEPT !.op = "convert", !.from = v,
                          !.result = [type |-> big.type, bytes |-> big.bytes],
                          !.overrun = big.overrun,
                          !.int = as_integer(big, mem), !.mem = mem]
    /\ UNCHANGED <<yg, xg, Settings, error, scratch, rnd, rt, ui, Screen>>

\* as_integer on the number drawn, or on one of nine bytes
AsInteger ==
    /\ last.op = "none"
    /\ \E o \in {yg} \cup {[type |-> yg.type, bytes |-> m] : m \in WideMags},
          mem \in {"ok", "make_fail"} :
          last' = [NoOp EXCEPT !.op = "as_integer", !.result = o,
                      !.int = as_integer(o, mem), !.mem = mem]
    /\ UNCHANGED <<yg, xg, Settings, error, scratch, rnd, rt, ui, Screen>>

InitNum ==
    /\ \E type \in SignedTypes \cup {ID_based_bignum}, ym \in Magnitudes :
          yg = [type |-> type, bytes |-> ym]
    /\ xg = NULL
    /\ Settings = [wordsize |-> 16, maxbignum |-> 32]
    /\ error = "none"
    /\ scratch = 0
    /\ last = NoOp
    /\ rnd = NoRenderer
    /\ Idle

NextNum ==
    \/ Render
    \/ Convert
    \/ AsInteger

SpecNum == InitNum /\ [][NextNum]_vars

(***************************************************************************)
(* The state machine of a renderer: constructed by Init over one of the    *)
(* three sinks, with the formatting state its users have set, then written *)
(* to with put and printf and destroyed.                                   *)
(***************************************************************************)
\* The sizes of the fixed buffers
BufferLengths == {2, 4}

\* The lengths of what printf formats: nothing, a few characters
PrintfSizes == {0, 2, 3}

InitRender ==
    /\ \E kind \in SinkKinds, length \in BufferLengths, flat \in BOOLEAN,
          sign \in BOOLEAN, nl \in BOOLEAN, tabs \in 0..MaxTabs :
          rnd = [make_renderer(kind, length, flat)
                    EXCEPT !.sign = sign, !.nl = nl, !.tabs = tabs]
    /\ yg = NULL
    /\ xg = NULL
    /\ Settings = [wordsize |-> 8, maxbignum |-> 16]
    /\ error = "none"
    /\ scratch = 0
    /\ last = NoOp
    /\ Idle

\* The renderer and the scratchpad after a call that left w
Rendered(w) ==
    /\ rnd' = w.r
    /\ scratch' = w.sp
    /\ UNCHANGED <<yg, xg, Settings, error, last, rt, ui, Screen>>

\* r.put(c)
Put ==
    /\ rnd.alive
    /\ rnd.written <= MaxWritten
    /\ \E c \in Chars :
          Rendered(put(Call(rnd, scratch), c))

\* r.printf(format, ...)
Printf ==
    /\ rnd.alive
    /\ rnd.written <= MaxWritten
    /\ \E size \in PrintfSizes, wrote \in BOOLEAN :
          Rendered(printf(Call(rnd, scratch), size, wrote))

\* The renderer goes out of scope
Destroy ==
    /\ rnd.alive
    /\ Rendered(destroy(Call(rnd, scratch)))

NextRender ==
    \/ Put
    \/ Printf
    \/ Destroy

SpecRender == InitRender /\ [][NextRender]_vars

(***************************************************************************)
(* Reference arithmetic, for stating the properties: the value of a        *)
(* magnitude as a number, and the schoolbook product of two magnitudes.    *)
(***************************************************************************)
RECURSIVE Val(_)
\* The number a little-endian magnitude denotes (three bytes at most)
Val(s) == IF Len(s) = 0 THEN 0 ELSE s[1] + 256 * Val([i \in 1..(Len(s) - 1) |-> s[i + 1]])

\* No high-order zero byte
IsNormal(s) == Len(s) = 0 \/ s[Len(s)] # 0

Signed(o) == o.type \in SignedTypes

Based(o) == o.type = ID_based_bignum

RECURSIVE ToBytes(_)
\* The little-endian magnitude of a natural number, no high-order zero
ToBytes(n) == IF n = 0 THEN <<>> ELSE <<n % 256>> \o ToBytes(n \div 256)

\* Byte i of a magnitude (from 0), zero past its end
Digit(s, i) == IF i < Len(s) THEN s[i + 1] ELSE 0

RECURSIVE ColSum(_, _, _, _)
\* The sum of the byte products a[i] * b[k - i] of column k, from i on
ColSum(a, b, k, i) ==
    IF i > k THEN 0 ELSE Digit(a, i) * Digit(b, k - i) + ColSum(a, b, k, i + 1)

RECURSIVE RefMulFrom(_, _, _, _, _)
\* Columns k..n-1 of the schoolbook product, with the carry c coming in
RefMulFrom(a, b, k, n, c) ==
    IF k >= n THEN <<>>
    ELSE LET t == ColSum(a, b, k, 0) + c
         IN  <<t % 256>> \o RefMulFrom(a, b, k + 1, n, t \div 256)

\* The mathematical product of two magnitudes, as a magnitude
RefMul(a, b) == Strip(RefMulFrom(a, b, 0, Len(a) + Len(b), 0))

\* The number of bits of a byte: 0 for 0, 8 for 128..255
BitLen(b) == CHOOSE n \in 0..8 : b < Pow2(n) /\ (n = 0 \/ b >= Pow2(n - 1))

\* The number of bits of a magnitude
BitWidth(s) ==
    LET t == Strip(s)
    IN  IF Len(t) = 0 THEN 0 ELSE 8 * (Len(t) - 1) + BitLen(t[Len(t)])

\* A magnitude modulo 2^w
LowBits(s, w) ==
    Strip([i \in 1..Len(s) |->
              IF 8 * i <= w THEN s[i]
              ELSE IF 8 * (i - 1) >= w THEN 0
              ELSE s[i] % Pow2(w - 8 * (i - 1))])

\* Numbers from 2^CapBits on are all counted as 2^CapBits
Cap == Pow2(CapBits)

ValSat(s) == LET t == Strip(s) IN IF Len(t) > 2 THEN Cap ELSE Min(Val(t), Cap)

SatMul(a, b) ==
    IF a = 0 \/ b = 0 THEN 0
    ELSE IF a >= Cap \/ b >= Cap \/ a > Cap \div b THEN Cap
    ELSE Min(a * b, Cap)

RECURSIVE PowSat(_, _)
\* a^n, counted as 2^CapBits from there on
PowSat(a, n) ==
    IF n = 0 THEN 1
    ELSE IF a <= 1 THEN a
    ELSE IF n >= CapBits THEN Cap
    ELSE SatMul(a, PowSat(a, n - 1))

(***************************************************************************)
(* C1: for signed operands y and x with x # 0, when the heap serves the    *)
(* allocations, quorem returns true and its quotient q and remainder r     *)
(* satisfy y = q*x + r and 0 <= r < x.                                     *)
(***************************************************************************)
C1_QuoremDivides ==
    (/\ last.op = "quorem"
     /\ last.mem = "ok"
     /\ Signed(yg) /\ Signed(xg)
     /\ ~is_zero(xg))
    => /\ last.ok
       /\ Safe(last.result) /\ Safe(last.rem)
       /\ Val(yg.bytes) = Val(last.result.bytes) * Val(xg.bytes) + Val(last.rem.bytes)
       /\ Val(last.rem.bytes) < Val(xg.bytes)

\* The division of issue #70, 0x17B / 0xEF, has given 1 remainder 0x8C
C1_Witness ==
    /\ last.op = "quorem"
    /\ last.mem = "ok"
    /\ yg = [type |-> ID_bignum, bytes |-> <<123, 1>>]
    /\ xg = [type |-> ID_neg_bignum, bytes |-> <<239>>]
    /\ last.ok
    /\ last.result.bytes = <<1>>
    /\ last.rem.bytes = <<140>>

(***************************************************************************)
(* C2: pow(y, x) returns y raised to the magnitude of x for every          *)
(* exponent, also one of two bytes or more, and consequently               *)
(* pow(a, b + c) = pow(a, b) * pow(a, c).  Checked on the magnitudes, for  *)
(* signed operands, when no multiplication of the computation fails.       *)
(***************************************************************************)
\* pow(yg, b) with every allocation served
PowOf(b) == pow(yg, [type |-> ID_bignum, bytes |-> b], 0)

\* pow(a, b + c) = pow(a, b) * pow(a, c) for b the exponent drawn and c small
PowAddsExponents ==
    \A c \in SmallMags :
        LET both == PowOf(ToBytes(Val(xg.bytes) + Val(c)))
            pb   == PowOf(xg.bytes)
            pc   == PowOf(c)
            prod == op_mul(pb.result, pc.result, "ok")
        IN  (/\ both.err = "none" /\ pb.err = "none" /\ pc.err = "none"
             /\ Safe(prod.result))
            => both.result.bytes = prod.result.bytes

C2_PowIsPower ==
    (/\ last.op = "pow"
     /\ last.mem = "ok"
     /\ last.err = "none"
     /\ Safe(last.result)
     /\ Signed(yg) /\ Signed(xg))
    => /\ ValSat(last.result.bytes) = PowSat(ValSat(yg.bytes), Val(xg.bytes))
       /\ PowAddsExponents

(***************************************************************************)
(* C3, as stated: multiply fails with number_too_big if and only if the    *)
(* bit width of the mathematical product exceeds Settings.maxbignum; a     *)
(* product that fits is never rejected.                                    *)
(***************************************************************************)
C3_RejectedIffProductTooWide ==
    (last.op = "mul")
    => ((last.err = "number_too_big")
        <=> (BitWidth(RefMul(yg.bytes, xg.bytes)) > Settings.maxbignum))

(***************************************************************************)
(* C3, amended: multiply fails with number_too_big if and only if eight    *)
(* times the sum of the byte sizes of x and y exceeds Settings.maxbignum,   *)
(* whatever the word size; so every product wider than maxbignum bits is   *)
(* rejected, and a product that is not rejected is returned when the heap  *)
(* serves the allocations, equal to the mathematical product for signed    *)
(* operands.                                                               *)
(***************************************************************************)
C3_RejectedIffOperandsTooWide ==
    (last.op = "mul")
    => /\ (last.err = "number_too_big")
          <=> (8 * (Len(xg.bytes) + Len(yg.bytes)) > Settings.maxbignum)
       /\ (BitWidth(RefMul(yg.bytes, xg.bytes)) > Settings.maxbignum)
          => (last.err = "number_too_big" /\ last.result = NULL)
       /\ (last.err # "number_too_big" /\ last.mem = "ok")
          => /\ Safe(last.result)
             /\ Signed(yg) => last.result.bytes = RefMul(yg.bytes, xg.bytes)

\* 0x101 * 1 has been rejected under a word size of 8 bits although the
\* product has 9 bits and maxbignum is 16
C3_Witness ==
    /\ last.op = "mul"
    /\ yg.bytes = <<1, 1>> /\ xg.bytes = <<1>>
    /\ Based(yg) /\ Settings.wordsize = 8
    /\ Settings.maxbignum = 16
    /\ last.err = "number_too_big"
    /\ BitWidth(RefMul(yg.bytes, xg.bytes)) = 9

(***************************************************************************)
(* C4: for based operands under a word size of W bits, multiply returns    *)
(* (y * x) mod 2^W for every W, also when W is not a multiple of 8.        *)
(* Checked for operands that fit in W bits.                                *)
(***************************************************************************)
\* Both operands are based numbers of at most wordsize bits
BasedInWord ==
    /\ Based(yg) /\ Based(xg)
    /\ BitWidth(yg.bytes) <= Settings.wordsize
    /\ BitWidth(xg.bytes) <= Settings.wordsize
    /\ IsNormal(yg.bytes) /\ IsNormal(xg.bytes)

C4_BasedProductModWordSize ==
    (/\ last.op = "mul"
     /\ BasedInWord
     /\ last.mem = "ok"
     /\ last.err = "none")
    => /\ Safe(last.result)
       /\ last.result.bytes
            = LowBits(RefMul(yg.bytes, xg.bytes), Settings.wordsize)

(***************************************************************************)
(* C5: for based operands under a word size of W bits, the subtraction     *)
(* y - x returns (y - x) mod 2^W and keeps the based type, also when       *)
(* y < x and when y = x.  Checked for operands that fit in W bits.         *)
(***************************************************************************)
C5_BasedDifferenceModWordSize ==
    (last.op = "sub" /\ BasedInWord)
    => /\ Safe(last.result)
       /\ last.result.type = ID_based_bignum
       /\ last.result.bytes
            = ToBytes((Val(yg.bytes) - Val(xg.bytes)) % Pow2(Settings.wordsize))

(***************************************************************************)
(* C6: with a zero divisor, quorem sets the zero_divide error and returns  *)
(* false without allocating scratchpad memory and without writing the      *)
(* quotient or the remainder; operator/ and operator% then return null.    *)
(***************************************************************************)
C6_ZeroDivide ==
    (last.op \in {"quorem", "div", "mod"} /\ is_zero(xg))
    => /\ error = "zero_divide"
       /\ last.err = "zero_divide"
       /\ ~last.ok
       /\ last.allocated = 0 /\ last.freed = 0 /\ scratch = 0
       /\ ~last.qwritten /\ ~last.rwritten
       /\ last.result = NULL /\ last.rem = NULL

\* A division of a non-zero number by zero has been attempted
C6_Witness ==
    /\ last.op = "div"
    /\ is_zero(xg)
    /\ ~is_zero(yg)
    /\ error = "zero_divide"
    /\ last.result = NULL

(***************************************************************************)
(* C7: the remainder operator% returns has the type of the dividend y,     *)
(* whatever the type of x.                                                 *)
(***************************************************************************)
C7_RemainderHasTypeOfDividend ==
    (last.op = "mod" /\ Safe(last.result)) => last.result.type = yg.type

\* A negative dividend and a positive divisor have left a non-zero negative
\* remainder
C7_Witness ==
    /\ last.op = "mod"
    /\ yg.type = ID_neg_bignum
    /\ xg.type = ID_bignum
    /\ Safe(last.result)
    /\ last.result.type = ID_neg_bignum
    /\ ~is_zero(last.result)

(***************************************************************************)
(* C8: the addition of signed numbers is commutative, sign included:       *)
(* y + x and x + y have the same magnitude and the same type.              *)
(***************************************************************************)
C8_AdditionCommutes ==
    (last.op = "add" /\ Signed(yg) /\ Signed(xg))
    => LET swapped == add_sub(xg, yg, FALSE)
       IN  /\ Safe(last.result) /\ Safe(swapped)
           /\ last.result.bytes = swapped.bytes
           /\ last.result.type = swapped.type

\* 1 + (-3) has given -2
C8_Witness ==
    /\ last.op = "add"
    /\ yg = [type |-> ID_bignum, bytes |-> <<1>>]
    /\ xg = [type |-> ID_neg_bignum, bytes |-> <<3>>]
    /\ last.result = [type |-> ID_neg_bignum, bytes |-> <<2>>]

(***************************************************************************)
(* C9: multiply and quorem free exactly the `needed` bytes they allocated  *)
(* on every path after a successful allocation (also when building the     *)
(* result fails), free nothing when the allocation failed or was never     *)
(* attempted, and leave the scratchpad at the level they found it at.      *)
(***************************************************************************)
\* The scratchpad bytes the operation asks for, as the source computes it
NeededBytes ==
    IF last.op = "mul" THEN mul_needed(yg, xg)
    ELSE Len(yg.bytes) + Len(xg.bytes) + 1

\* The operation returned before its scratchpad allocation succeeded
NeverAllocated ==
    \/ last.mem = "alloc_fail"
    \/ last.err \in {"number_too_big", "zero_divide"}

C9_ScratchpadBalanced ==
    (last.op \in {"mul", "quorem", "div", "mod"})
    => /\ scratch = 0
       /\ last.freed = last.allocated
       /\ NeverAllocated => last.allocated = 0
       /\ ~NeverAllocated => last.allocated = NeededBytes

\* multiply could not build its result and has freed what it had allocated
C9_Witness ==
    /\ last.op = "mul"
    /\ last.mem = "make_fail"
    /\ last.result = NULL
    /\ last.allocated > 0
    /\ last.freed = last.allocated

(***************************************************************************)
(* C10: a destroyed renderer has freed as many scratchpad bytes as its     *)
(* put and printf calls allocated, for each of the three sinks: none for a *)
(* fixed buffer, what it wrote for the scratchpad, none for a file.        *)
(***************************************************************************)
C10_DestructorFreesWhatWasAllocated ==
    ~rnd.alive
    => /\ rnd.freed = rnd.allocated
       /\ scratch = 0
       /\ (rnd.target \/ rnd.saving) => rnd.freed = 0

(***************************************************************************)
(* C11: for every magnitude n and base b in {2, 8, 10, 16}, with digit     *)
(* spacing disabled, render_num emits after the prefix exactly the base-b  *)
(* digits of n, most significant first, with 0-9 and uppercase A-F and no  *)
(* leading zero; the single digit 0 for n = 0.  Checked when the divisions *)
(* get their memory and the sink has room; what follows the digits is the  *)
(* suffix of the format, which holds no digit.                             *)
(***************************************************************************)
RefDigitNames == <<"0", "1", "2", "3", "4", "5", "6", "7", "8", "9",
                   "A", "B", "C", "D", "E", "F">>

RECURSIVE RefDigits(_, _)
\* The digits of n in base b, most significant first
RefDigits(n, b) ==
    IF n < b THEN <<RefDigitNames[n + 1]>>
    ELSE Append(RefDigits(n \div b, b), RefDigitNames[(n % b) + 1])

\* The characters i..j of a text
Chunk(text, i, j) == [k \in 1..(j + 1 - i) |-> text[i + k - 1]]

\* The text is the prefix of the format, then the digits, then no digit
IsRendering(text, fmt, digits) ==
    LET np == IF Len(fmt) > 0 THEN 1 ELSE 0
        nd == Len(digits)
    IN  /\ Len(text) >= np + nd
        /\ np = 1 => text[1] = fmt[1]
        /\ Chunk(text, np + 1, np + nd) = digits
        /\ \A i \in (np + nd + 1)..Len(text) :
              \A k \in 1..16 : text[i] # RefDigitNames[k]

C11_RenderNumDigits ==
    (/\ last.op = "render"
     /\ last.spacing = 0
     /\ last.mem = "ok"
     /\ last.room)
    => IsRendering(last.text, last.fmt,
                   RefDigits(Val(yg.bytes), last.base))

\* #FFFF has been rendered in base 16, and 0 as the digit 0
C11_Witness ==
    /\ last.op = "render"
    /\ last.spacing = 0 /\ last.mem = "ok" /\ last.room
    /\ \/ /\ yg.bytes = <<255, 255>>
          /\ last.base = 16
          /\ last.text = <<"hash", "F", "F", "F", "F", "h">>
       \/ /\ yg.bytes = <<123, 1>>
          /\ last.base = 10
          /\ last.text = <<"minus", "3", "7", "9">>

(***************************************************************************)
(* C12: a small integer v made a bignum with bignum(type, integer) and an  *)
(* integer again with as_integer has the magnitude and the sign of v; and  *)
(* as_integer returns null exactly when the magnitude takes more than 8    *)
(* bytes.  Checked when rt.make<integer> gets its memory.                  *)
(***************************************************************************)
C12_IntegerRoundTrip ==
    /\ (last.op = "convert" /\ last.mem = "ok")
       => /\ ~last.overrun
          /\ last.int # NULLINT
          /\ last.int.value = last.from.value
          /\ last.int.type = last.from.type
          /\ IsNormal(last.result.bytes)
    /\ (last.op \in {"convert", "as_integer"} /\ last.mem = "ok")
       => ((last.int = NULLINT) <=> (Len(last.result.bytes) > 8))

\* -(2^63) has come back from its eight bytes, and a number of nine bytes
\* has given null
C12_Witness ==
    \/ /\ last.op = "convert"
       /\ last.mem = "ok"
       /\ last.from = [type |-> ID_neg_integer,
                       value |-> <<0, 0, 0, 0, 0, 0, 0, 128>>]
       /\ last.result = [type |-> ID_neg_bignum,
                         bytes |-> <<0, 0, 0, 0, 0, 0, 0, 128>>]
       /\ last.int = last.from
    \/ /\ last.op = "as_integer"
       /\ last.mem = "ok"
       /\ Len(last.result.bytes) = 9
       /\ last.int = NULLINT

(***************************************************************************)
(* C15: every bignum operator (+, -, *, /, %, pow, &, |, ^, unary - and ~) *)
(* given a null operand returns null without dereferencing the operand,    *)
(* without raising an error and without allocating.                        *)
(***************************************************************************)
BinaryOps == {"add", "sub", "mul", "div", "mod", "pow", "and", "or", "xor"}
UnaryOps  == {"neg", "not"}

\* The call that was made had a null operand
OnNullOperand ==
    \/ last.op \in BinaryOps /\ (~Safe(yg) \/ ~Safe(xg))
    \/ last.op \in UnaryOps /\ ~Safe(xg)

C15_NullOperandGivesNull ==
    OnNullOperand
    => /\ last.result = NULL
       /\ ~last.deref
       /\ last.err = "none" /\ error = "none"
       /\ last.allocated = 0 /\ scratch = 0

\* The operators that test their operands first do return null
C15_CheckedOperatorsGiveNull ==
    (last.op \in {"add", "sub", "mul", "div", "mod", "pow"} /\ OnNullOperand)
    => /\ last.result = NULL
       /\ ~last.deref
       /\ last.err = "none" /\ error = "none"
       /\ last.allocated = 0 /\ scratch = 0

(***************************************************************************)
(* C17: the ASCII spellings the specification names are registered in the  *)
(* table as spellings of the command of the glyph: "*" names mul, "/"      *)
(* names div and "<=" names TestLE.                                        *)
(***************************************************************************)
C17_AsciiAliasesRegistered ==
    last.op = "lookup"
    => /\ (last.name = "*"  => last.id = "mul")
       /\ (last.name = "/"  => last.id = "div")
       /\ (last.name = "<=" => last.id = "TestLE")
       /\ (last.name = "{U+00D7}" => last.id = "mul")
       /\ (last.name = "{U+00F7}" => last.id = "div")
       /\ (last.name = "{U+2264}" => last.id = "TestLE")

\* What the table does register: "*" and "/", and no spelling "<="
C17_RegisteredAliases ==
    last.op = "lookup"
    => /\ (last.name = "*"  => last.id = "mul")
       /\ (last.name = "/"  => last.id = "div")
       /\ (last.name = "<=" => last.id = "none")

(***************************************************************************)
(* C18: in both builds, with and without CONFIG_FIXED_BASED_OBJECTS, every *)
(* FLAGS pair has its first id at or before its last id in the order of    *)
(* the table, and the inclusive range of is_integer holds only the small   *)
(* integer kinds (the based integers, integer, neg_integer) and no bignum  *)
(* kind.                                                                   *)
(***************************************************************************)
SmallIntegerKinds ==
    {"hex_integer", "dec_integer", "oct_integer", "bin_integer",
     "based_integer", "integer", "neg_integer"}

BignumKinds ==
    {"hex_bignum", "dec_bignum", "oct_bignum", "bin_bignum", "based_bignum",
     "bignum", "neg_bignum"}

\* The pairs of the flag queried are ids of the build, first before last
PairsOrdered ==
    last.op = "flag"
    => LET rs == flag_ranges(last.config, last.name)
       IN  \A k \in 1..Len(rs) :
              /\ id_value(last.config, rs[k][1]) >= 0
              /\ id_value(last.config, rs[k][1])
                    <= id_value(last.config, rs[k][2])

C18_IsIntegerHoldsNoBignum ==
    /\ PairsOrdered
    /\ (last.op = "flag" /\ last.name = "is_integer" /\ last.ok)
       => last.id \in SmallIntegerKinds

\* As amended: the range of is_integer holds the integer kinds of either
\* size, small integers and bignums, and nothing else
C18_IsIntegerHoldsIntegersAndBignums ==
    /\ PairsOrdered
    /\ (last.op = "flag" /\ last.name = "is_integer")
       => (last.ok <=> last.id \in SmallIntegerKinds \cup BignumKinds)

C18_Witness ==
    /\ last.op = "flag" /\ last.name = "is_integer" /\ last.ok
    /\ last.config /\ last.id = "hex_bignum"

(***************************************************************************)
(* C16: Line, Ellipse, Circle, Rect and RRect take their arguments off the *)
(* stack only when every coordinate conversion succeeded: when a           *)
(* conversion raises an error the command returns ERROR, the stack keeps   *)
(* its depth and contents, and nothing is drawn.                           *)
(***************************************************************************)
DrawingOps == {"Line", "Ellipse", "Circle", "Rect", "RRect"}

\* A step in which a command took arguments off the stack or drew
Consumed == rt'.stack # rt.stack \/ Screen' # Screen

C16_ArgumentsKeptOnError ==
    [][(last'.op \in DrawingOps)
       => /\ (error' # "none"
               => /\ ~last'.ok
                  /\ rt'.stack = rt.stack
                  /\ Screen' = Screen)
          /\ (Consumed => last'.ok /\ error' = "none")]_vars

\* A command met an object that is no coordinate: a type error, the stack
\* of three objects as it was, nothing drawn
C16_Witness ==
    /\ last.op \in DrawingOps /\ ~last.ok /\ last.err = "type"
    /\ Len(rt.stack) = 3 /\ Screen = <<>>


(***************************************************************************)
(* C13: when end_edit fails to parse the command line, it returns false,   *)
(* executes nothing and pushes nothing, puts the text back in the editor   *)
(* without its number separators, sets cursor = select = the offset of the *)
(* error when that offset lies within the text, and leaves the index of    *)
(* the command-line history as it is.                                      *)
(***************************************************************************)
\* The text without the number separators that are outside of a quoted text
RECURSIVE Stripped(_, _)
Stripped(text, quoted) ==
    IF text = <<>> THEN <<>>
    ELSE IF Head(text) = "\""
    THEN <<Head(text)>> \o Stripped(Tail(text), ~quoted)
    ELSE IF ~quoted /\ Head(text) \in {Settings.space, Settings.space_based}
    THEN Stripped(Tail(text), quoted)
    ELSE <<Head(text)>> \o Stripped(Tail(text), quoted)

\* The event called end_edit and the command line did not parse
ParseFailed == last'.op = "key" /\ last'.parsed = "failed"

\* The offset of the error lies within the text
ErrorWithin(text) == last'.pos >= 0 /\ last'.pos <= Len(text)

\* What is left alone when the parse fails
NothingRun ==
    /\ last'.ended = "false"
    /\ last'.ran = <<>>
    /\ rt'.stack = rt.stack
    /\ ui'.cmdIndex = ui.cmdIndex

\* The editor holds the text again, the cursor is on the error
Reopened ==
    /\ rt'.editor = Stripped(rt.editor, FALSE)
    /\ ErrorWithin(Stripped(rt.editor, FALSE)) =>
          (ui'.cursor = last'.pos /\ ui'.select = last'.pos)

\* C13, as claimed: a parse failure in end_edit returns false, runs and
\* pushes nothing, keeps the history index, re-opens the editor with the
\* stripped text and puts cursor and select on the error
C13_ParseFailureReopensEditor ==
    [][ParseFailed => (NothingRun /\ Reopened)]_vars

\* C13, amended: the same, the editor being re-opened and the cursor set
\* when rt.edit succeeds; when it fails the editor stays closed, cursor is 0
\* and nothing is selected
C13_ParseFailureReopensEditorIfItCan ==
    [][ParseFailed =>
          /\ NothingRun
          /\ last'.reopened => Reopened
          /\ ~last'.reopened =>
                (rt'.editor = <<>> /\ ui'.cursor = 0
                 /\ ui'.select = Unbounded)]_vars

\* A command line with a number separator failed to parse: the editor holds
\* it without the separator, shorter than the line saved in the history,
\* and cursor and select are on the error, inside the text
C13_Witness ==
    /\ last.op = "key" /\ last.parsed = "failed" /\ last.reopened
    /\ last.ended = "false"
    /\ last.pos > 0 /\ last.pos < Len(rt.editor)
    /\ ui.cursor = last.pos /\ ui.select = last.pos
    /\ Len(rt.editor) < Len(ui.history[ui.cmdIndex])
    /\ rt.editor = Stripped(ui.history[ui.cmdIndex], FALSE)
(***************************************************************************)
(* C14: while an error is pending, user_interface::key consumes every key  *)
(* event: it returns true and dispatches it to no handler, so that nothing *)
(* is executed, parsed or loaded, and the editor text, the cursor, the     *)
(* selection, the stack and the shift, xshift and alpha state are          *)
(* unchanged (of the user interface only longpress and repeat are set).    *)
(* The error is cleared by EXIT, ENTER and BSP and by no other key, and    *)
(* the key press that clears it does nothing else.                         *)
(***************************************************************************)
ClearingKeys == {KEY_EXIT, KEY_ENTER, KEY_BSP}

ShiftState(u) ==
    IF u.xshift /\ u.shift THEN "both"
    ELSE IF u.xshift THEN "xshift"
    ELSE IF u.shift THEN "shift"
    ELSE "none"

NextInCycle(s) ==
    CASE s = "none"   -> "shift"
      [] s = "shift"  -> "xshift"
      [] s = "xshift" -> "none"
      [] OTHER        -> "outside"

ShortPressOfShift ==
    /\ error = "none"
    /\ last'.op = "key" /\ last'.key = KEY_SHIFT /\ ~last'.repeating

ReleaseAfterShift ==
    /\ error = "none"
    /\ last.op = "key" /\ last.key = KEY_SHIFT
    /\ last'.op = "key" /\ last'.key = 0

\* C19: a short press of SHIFT is consumed and moves the shift state one
\* step along none -> shift -> xshift -> none; the release after it keeps
\* the shift state
C19_ShiftCycle ==
    [][/\ ShortPressOfShift =>
            /\ last'.ok
            /\ ShiftState(ui') = NextInCycle(ShiftState(ui))
       /\ ReleaseAfterShift =>
            /\ ui'.shift = ui.shift
            /\ ui'.xshift = ui.xshift
      ]_vars

\* The third short press of SHIFT: the state was xshift, kept by the
\* release of the SHIFT press that set it, and is none again; the press
\* was consumed
C19_Witness ==
    /\ last.op = "key" /\ last.key = KEY_SHIFT /\ ~last.repeating
    /\ last.pending = "none"
    /\ last.plane = 2
    /\ last.prev = 0 /\ last.was = KEY_SHIFT
    /\ last.ok
    /\ ShiftState(ui) = "none"
    /\ ui.last = KEY_SHIFT

(***************************************************************************)
(* C20: a key whose bound object has a help topic is not executed when     *)
(* pressed; after a short press it is executed once, on the release; after *)
(* a long press its help is looked up instead, and the release that        *)
(* follows the long press does not execute the function.  The last part is *)
(* stated by C20_LongPressDoesNotExecute: when the call of key() for a key *)
(* held down has looked up the help topic of the key, the release event    *)
(* that follows executes nothing and leaves the runtime as it is.          *)
(***************************************************************************)
Now == [ui |-> ui, rt |-> rt]

\* handle_help looks up a help topic for the key k in the current state
KeyHasHelp(k) ==
    /\ k # 0 /\ k # KEY_SHIFT
    /\ error = "none"
    /\ ~showingHelp(ui)
    /\ ~noHelpForKey(Now, k)
    /\ object_for_key(Now, k) # "none"

\* The event is the release that follows a long press for which the help
\* topic of the key was looked up
ReleaseAfterLongPress ==
    /\ last.op = "key" /\ last.key # 0 /\ last.repeating
    /\ last.loaded # "none"
    /\ last'.op = "key" /\ last'.key = 0

\* C20: the release that follows a long press of a key with a help topic
\* executes nothing
C20_LongPressDoesNotExecute ==
    [][ReleaseAfterLongPress => (last'.ran = <<>> /\ rt' = rt)]_vars

\* The press of a key with a help topic executes nothing
C20_PressDoesNotExecute ==
    [][\A k \in Keys :
          (KeyHasHelp(k) /\ last'.op = "key" /\ last'.key = k)
              => (last'.ok /\ last'.ran = <<>> /\ rt' = rt)]_vars

\* The release after a short press of a key with a help topic, the command
\* line being empty and alpha mode being off, executes the object of the
\* key, once
ReleaseAfterShortPress ==
    /\ last.op = "key" /\ last.key # 0 /\ ~last.repeating
    /\ last.key # KEY_SHIFT
    /\ last.pending = "none"
    /\ ui.last = last.key
    /\ ui.repeat /\ ui.command = help_topic(object_for_key(Now, last.key))
    /\ Len(rt.editor) = 0 /\ ~ui.alpha
    /\ last'.op = "key" /\ last'.key = 0

C20_ShortPressExecutesOnRelease ==
    [][ReleaseAfterShortPress =>
          last'.ran = <<object_for_key(Now, last.key)>>]_vars

\* A long press has opened the help topic of the key: the release that
\* follows is consumed by the help browser
C20_LongPressOpensHelp ==
    [][(ReleaseAfterLongPress /\ last.loaded = "found") =>
          /\ showingHelp(ui) /\ showingHelp(ui')
          /\ last'.ran = <<>>]_vars

(***************************************************************************)
(* C21: while help is displayed, a key event is consumed (key returns      *)
(* true), the runtime (editor and stack) stays as it is, nothing is parsed *)
(* or executed, and help stays displayed unless the key is EXIT, or BSP    *)
(* with no previous topic to go back to; EXIT closes help.                 *)
(***************************************************************************)
\* The key closes the help that is displayed
ClosesHelp ==
    \/ last'.key = KEY_EXIT
    \/ last'.key = KEY_BSP /\ ui.topics_history <= 1

AlphaState(u) ==
    IF ~u.alpha THEN "none" ELSE IF u.lowercase THEN "lower" ELSE "upper"

NextAlpha(s) ==
    CASE s = "none"  -> "upper"
      [] s = "upper" -> "lower"
      [] s = "lower" -> "none"

ShiftEnter ==
    /\ error = "none"
    /\ ui.shift
    /\ last'.op = "key" /\ last'.key = KEY_ENTER

\* C22: shift ENTER steps the alpha state along the cycle, clears shift and
\* is consumed without ending the edit or executing anything
C22_ShiftEnterCyclesAlpha ==
    [][ShiftEnter =>
          /\ last'.ok
          /\ AlphaState(ui') = NextAlpha(AlphaState(ui))
          /\ ~ui'.shift
          /\ rt' = rt
          /\ last'.ran = <<>> /\ last'.ended = "none"]_vars

\* The third step of the cycle while a command line is being typed: shift
\* ENTER has left the lowercase alpha state for non-alpha (it only does so
\* from lowercase), the editor is still open
C22_Witness ==
    /\ last.op = "key" /\ last.key = KEY_ENTER /\ last.plane = 1
    /\ last.pending = "none"
    /\ last.ok
    /\ AlphaState(ui) = "none" /\ ~ui.shift
    /\ Len(rt.editor) > 0

(***************************************************************************)
(* C23: when the object of the first level of the stack has been opened    *)
(* for editing with DOWN and the edit is cancelled with EXIT, the object   *)
(* is pushed back and the stack is what it was before DOWN (last.before),  *)
(* whatever ENTER attempts failed in between; when ENTER succeeds the      *)
(* stack gets the object parsed from the command line and the object that  *)
(* was opened is not pushed back, by this event or by a later EXIT.        *)
(***************************************************************************)
\* No command has run on the stack since DOWN took the object: the stack
\* is the one DOWN left
StackAsDownLeftIt == last.before = ui.editing \o rt.stack

\* EXIT, without shift, with no error pending, the editor holding the text
\* of an object taken from the stack
ExitCancelsEdit ==
    /\ ui.editing # <<>> /\ Len(rt.editor) > 0
    /\ StackAsDownLeftIt
    /\ error = "none" /\ ~ui.shift /\ ~ui.xshift
    /\ last'.op = "key" /\ last'.key = KEY_EXIT

\* ENTER on the command line of an object taken from the stack fails
EnterFails ==
    /\ ui.editing # <<>>
    /\ last'.op = "key" /\ last'.key = KEY_ENTER
    /\ last'.parsed \in {"failed", "no_memory"}

\* The command line of an object taken from the stack is entered, and the
\* stack has room for the object parsed
EnterEndsEdit ==
    /\ ui.editing # <<>>
    /\ Len(rt.stack) < MaxStack
    /\ last'.op = "key" /\ last'.parsed = "ok"

\* C23: EXIT on the edit of a stack object restores the stack of before
\* DOWN, a failed ENTER leaves the stack and the object that was opened as
\* they are, a successful ENTER drops the object that was opened
C23_CancelRestoresStack ==
    [][/\ ExitCancelsEdit =>
            /\ last'.ok
            /\ rt'.stack = last.before
            /\ rt'.stack = ui.editing \o rt.stack
            /\ rt'.editor = <<>>
            /\ ui'.editing = <<>>
       /\ EnterFails =>
            /\ rt'.stack = rt.stack
            /\ ui'.editing = ui.editing
            /\ last'.before = last.before
       /\ EnterEndsEdit =>
            /\ ui'.editing = <<>>
            /\ rt'.stack = <<Parsed(Stripped(rt.editor, FALSE))>> \o rt.stack
       /\ (ui.editing = <<>> /\ last'.key = KEY_EXIT) =>
            rt'.stack = rt.stack
      ]_vars

\* DOWN opened the number 1 of the stack, ENTER was tried on its text and
\* failed, the error was cleared and EXIT cancelled the edit: the stack
\* holds the number 1 again
C23_Witness ==
    /\ last.op = "key" /\ last.key = KEY_EXIT /\ last.pending = "none"
    /\ last.events >= 5
    /\ ui.history[ui.cmdIndex] # <<>>
    /\ ui.editing = <<>> /\ rt.editor = <<>>
    /\ rt.stack = <<Parsed(<<"1">>)>>
    /\ last.before = <<>>

(***************************************************************************)
(* C24: when a key whose function is not immediate is pressed while the    *)
(* editor is open, in a mode where handle_functions closes the editor      *)
(* first (any mode but PROGRAM and ALGEBRAIC, or Sto in ALGEBRAIC mode),   *)
(* and end_edit fails to parse the command line, the function is not       *)
(* executed, handle_functions returns false (so does key) and rt.save is   *)
(* not called.                                                             *)
(***************************************************************************)
\* The key has a function that is not immediate, the editor is open and
\* handle_functions closes it before it runs the function
FunctionClosesEditor(k) ==
    /\ Len(rt.editor) > 0
    /\ k \notin {0, KEY_ENTER, KEY_BSP}
    /\ object_for_key(Now, k) \notin {"none", "SelfInsert"}
    /\ ~is_immediate(object_for_key(Now, k))
    /\ \/ ui.mode \notin {"PROGRAM", "ALGEBRAIC"}
       \/ ui.mode = "ALGEBRAIC" /\ object_for_key(Now, k) = "Sto"

\* The key handle_functions is given: handle_help holds the press of a key
\* that has a help topic and gives the key back at its release
FunctionKey == IF last'.key = 0 THEN ui.last ELSE last'.key

\* C24: a function key that closes the editor does nothing when the
\* command line does not parse
C24_FailedEditStopsFunction ==
    [][(/\ last'.op = "key"
        /\ FunctionClosesEditor(FunctionKey)
        /\ last'.parsed = "failed")
       => /\ last'.ran = <<>>
          /\ ~last'.ok
          /\ ~last'.saved
          /\ last'.ended = "false"
          /\ rt'.stack = rt.stack
      ]_vars

\* STO was pressed and released on an algebraic command line that did not parse
C24_Witness ==
    /\ last.op = "key" /\ last.key = 0 /\ last.was = KEY_STO
    /\ last.prev = KEY_STO /\ last.plane = 0
    /\ last.parsed = "failed" /\ last.pending = "none"
    /\ ui.mode = "ALGEBRAIC"
    /\ Len(rt.editor) > 0 /\ rt.editor[1] = "'"
    /\ ~last.ok /\ last.ran = <<>>


(***************************************************************************)
(* C25: while the editor is open, BSP without xshift never closes it: the  *)
(* editor holds at least one character after the key, and when BSP erases  *)
(* the only character of the editor a single space takes its place.        *)
(***************************************************************************)
\* BSP, pressed or repeated, with the editor open and no second shift
BackspaceWhileEditing ==
    /\ Len(rt.editor) > 0 /\ ~ui.xshift
    /\ last'.op = "key" /\ last'.key = KEY_BSP

\* BSP reaches handle_editing (no error to clear, no help on the screen)
\* and erases the only character of the editor
ErasesLastCharacter ==
    /\ BackspaceWhileEditing
    /\ error = "none" /\ ~showingHelp(ui)
    /\ Len(rt.editor) = 1
    /\ IF ui.shift THEN ui.cursor = 0 ELSE ui.cursor = 1

\* C25: BSP without xshift leaves the editor open, with a single space
\* when it erased the last character
C25_BackspaceKeepsEditorOpen ==
    [][/\ BackspaceWhileEditing => (Len(rt'.editor) > 0 /\ last'.ok)
       /\ ErasesLastCharacter => rt'.editor = <<" ">>
      ]_vars

\* BSP has erased the digit that was alone in the editor
C25_Witness ==
    /\ last.op = "key" /\ last.key = KEY_BSP /\ last.prev = KEY_1
    /\ last.plane = 0 /\ last.pending = "none" /\ last.ok
    /\ ~showingHelp(ui)
    /\ rt.editor = <<" ">>

(***************************************************************************)
(* C26: after a command line was entered with success, the next recall of  *)
(* the history puts in the editor the text as it was typed (last.typed,    *)
(* the editor before end_edit removed the separators), with the cursor at  *)
(* 0 and nothing selected, provided rt.edit finds the memory for it; and   *)
(* cmdIndex is always an index of the history.                             *)
(***************************************************************************)
\* The first recall of the history after a successful end_edit
RecallsAfterEntry ==
    /\ last.typed # <<>>
    /\ last'.op = "key" /\ last'.recalled = "loaded"

\* C26: the first history recall after a successful entry loads the text
\* that was typed, cursor at 0, no selection
C26_RecallLoadsTypedText ==
    [][RecallsAfterEntry =>
          /\ rt'.editor = last.typed
          /\ ui'.cursor = 0
          /\ ui'.select = Unbounded
          /\ ui'.history[ui'.cmdIndex] = last.typed
      ]_vars

\* C26: cmdIndex stays within 0 .. HISTORY - 1
C26_CmdIndexInRange == ui.cmdIndex \in 0 .. HISTORY - 1

C26_HistoryRecall ==
    /\ []C26_CmdIndexInRange
    /\ C26_RecallLoadsTypedText

\* A command line with a digit separator was entered, which left its
\* number on the stack, and xshift-UP has put it back in the editor,
\* separator included
C26_Witness ==
    /\ last.op = "key" /\ last.key = KEY_UP /\ last.plane = 2
    /\ last.recalled = "loaded"
    /\ \E i \in 1 .. Len(rt.editor) : rt.editor[i] = Settings.space
    /\ rt.stack = <<Parsed(Stripped(rt.editor, FALSE))>>
    /\ ui.history[ui.cmdIndex] = rt.editor
    /\ ui.cursor = 0 /\ ui.select = Unbounded

(***************************************************************************)
(* C27: selecting the current menu leaves the history of the menus as it   *)
(* is; selecting another menu puts it on top of the others; menu_pop makes *)
(* the menu selected before current and keeps the popped menu in the       *)
(* history, so that no menu is lost.  The popped menu goes to the first    *)
(* empty entry after the top, which is the back of the non-empty entries   *)
(* when no empty entry lies among them.                                    *)
(***************************************************************************)
MenuSlots == 0..(MenuHistory - 1)

\* How many entries of a history hold a menu
Occurrences(s, mid) == Cardinality({i \in MenuSlots : s[i] = mid})

SelectsCurrent ==
    last'.op = "menu" /\ last'.menu = ui.menuStack[0]

SelectsAnother ==
    last'.op = "menu" /\ last'.menu # ui.menuStack[0]

Pops == last'.op = "menu_pop"

\* Selecting the current menu changes nothing
SelectCurrentKeepsHistory ==
    SelectsCurrent => ui' = ui

\* Selecting another menu pushes it on top
SelectAnotherPushes ==
    SelectsAnother =>
        /\ ui'.menuStack[0] = last'.menu
        /\ \A i \in MenuSlots \ {0} : ui'.menuStack[i] = ui.menuStack[i - 1]
        /\ ui'.menuPage = last'.page

\* menu_pop makes the menu below the top current and loses no menu
PopKeepsMenus ==
    Pops =>
        /\ ui'.menuStack[0] = ui.menuStack[1]
        /\ \A mid \in Menus :
              Occurrences(ui'.menuStack, mid) = Occurrences(ui.menuStack, mid)
        /\ ui'.menuPage = 0

\* The popped menu is the last of the non-empty entries
PoppedIsLast ==
    \E j \in MenuSlots \ {0} :
        /\ ui'.menuStack[j] = ui.menuStack[0]
        /\ \A i \in MenuSlots :
              IF i < j THEN ui'.menuStack[i] = ui.menuStack[i + 1]
              ELSE i > j => ui'.menuStack[i] = "object"

\* The popped menu is in the first empty entry that follows the top
PoppedInFirstEmpty ==
    \E j \in MenuSlots \ {0} :
        /\ ui'.menuStack[j] = ui.menuStack[0]
        /\ j = MenuHistory - 1 \/ ui.menuStack[j + 1] = "object"
        /\ \A i \in MenuSlots :
              /\ (i < j /\ i > 0) => ui.menuStack[i + 1] # "object"
              /\ (i # j /\ i < MenuHistory - 1) =>
                     ui'.menuStack[i] = ui.menuStack[i + 1]
              /\ (i # j /\ i = MenuHistory - 1) => ui'.menuStack[i] = "object"

\* No empty entry lies between two menus of the history below the top
NoGap(s) ==
    \A i, j \in MenuSlots \ {0} : (i < j /\ s[i] = "object") => s[j] = "object"

\* C27 as stated: menu_pop rotates the popped menu to the back of the
\* non-empty entries
C27_PopRotatesToBack ==
    [][/\ SelectCurrentKeepsHistory
       /\ SelectAnotherPushes
       /\ PopKeepsMenus
       /\ (Pops /\ ui.menuStack[0] # "object") => PoppedIsLast
      ]_vars

\* C27: selecting the current menu changes nothing, selecting another one
\* pushes it, menu_pop makes the previous menu current and keeps the popped
\* menu in the first empty entry after the top, the back of the history
\* when it has no gap
C27_PopKeepsPoppedMenu ==
    [][/\ SelectCurrentKeepsHistory
       /\ SelectAnotherPushes
       /\ PopKeepsMenus
       /\ (Pops /\ ui.menuStack[0] # "object") => PoppedInFirstEmpty
       /\ (Pops /\ ui.menuStack[0] # "object" /\ NoGap(ui.menuStack))
             => PoppedIsLast
      ]_vars

\* A menu was popped from a history of three menus: the menu selected
\* before it is current and the popped menu is the last of the three
C27_Witness ==
    /\ last.op = "menu_pop" /\ last.menu \in Menus
    /\ ui.menuStack[0] \in Menus /\ ui.menuStack[1] \in Menus
    /\ ui.menuStack[2] = last.menu /\ ui.menuStack[3] = "object"
    /\ ui.menuStack[0] # last.menu /\ ui.menuStack[1] # last.menu

(***************************************************************************)
(* C28: every access of quorem's division loop is in bounds: the indices   *)
(* used in remainder[] stay below xs + 1, those used in quotient[] below   *)
(* ys, and the bytes of the divisor are read at indices below xs only.     *)
(***************************************************************************)
\* quorem ran its division loop
Divided == last.op = "quorem" /\ last.err # "zero_divide"
                              /\ last.mem # "alloc_fail"

\* The accesses of quotient[] and remainder[] are within the buffer
BufferInBounds ==
    /\ last.rtop < Len(xg.bytes) + 1
    /\ last.qtop < Len(yg.bytes)

\* C28: the division loop reads and writes within the buffer and reads the
\* divisor within its bytes
C28_AccessesInBounds ==
    Divided => (BufferInBounds /\ last.xread < Len(xg.bytes))

\* The accesses of the buffer are in bounds, and the divisor is read at
\* most one byte past its end
C28_BufferAccessesInBounds ==
    Divided => (BufferInBounds /\ last.xread <= Len(xg.bytes))

\* A division whose shift carried out of the top byte of a remainder as
\* long as the divisor: x[xs] was read
C28_ReadPastDivisor ==
    /\ Divided
    /\ last.xread = Len(xg.bytes)
    /\ last.rtop = Len(xg.bytes)

(***************************************************************************)
(* C29: with a digit spacing s > 0, render_num separates the digits in     *)
(* groups counted from the least significant digit: every group has s      *)
(* digits but the most significant one, which has 1 to s; no separator     *)
(* comes before the first digit or after the last; and a rendering for a   *)
(* file holds no separator at all.  Checked when the divisions get their   *)
(* memory and the sink has room.                                           *)
(***************************************************************************)
RECURSIVE GroupedFrom(_, _, _)
\* The digits from the i-th on, a separator ahead of every digit that is
\* followed by a whole number of groups of s digits
GroupedFrom(digits, s, i) ==
    IF i > Len(digits) THEN <<>>
    ELSE (IF i > 1 /\ (Len(digits) + 1 - i) % s = 0 THEN <<"space">> ELSE <<>>)
         \o <<digits[i]>> \o GroupedFrom(digits, s, i + 1)

\* The text is the prefix of the format, then the body, then neither digit
\* nor separator
IsRenderingOf(text, fmt, body) ==
    LET np == IF Len(fmt) > 0 THEN 1 ELSE 0
        nb == Len(body)
    IN  /\ Len(text) >= np + nb
        /\ np = 1 => text[1] = fmt[1]
        /\ Chunk(text, np + 1, np + nb) = body
        /\ \A i \in (np + nb + 1)..Len(text) :
              /\ text[i] # "space"
              /\ \A k \in 1..16 : text[i] # RefDigitNames[k]

SpacedRendering ==
    /\ last.op = "render"
    /\ last.spacing > 0
    /\ last.mem = "ok"
    /\ last.room

\* C29: the digits are grouped by s from the least significant one, and not
\* at all for a file
C29_DigitGrouping ==
    SpacedRendering =>
        IsRenderingOf(last.text, last.fmt,
                      IF rnd.saving
                      THEN RefDigits(Val(yg.bytes), last.base)
                      ELSE GroupedFrom(RefDigits(Val(yg.bytes), last.base),
                                       last.spacing, 1))

\* 65535 has been rendered as 65 535 with a spacing of 3
C29_Witness ==
    /\ SpacedRendering /\ ~rnd.saving
    /\ last.spacing = 3 /\ last.base = 10
    /\ yg = [type |-> ID_bignum, bytes |-> <<255, 255>>]
    /\ last.text = <<"6", "5", "space", "5", "3", "5">>


(***************************************************************************)
(* Clip                                                                    *)
(***************************************************************************)
\* The argument Clip takes: level 1 of the stack before the command
ClipArgument == stack_at(rt.stack, 0)

ClipRuns == last'.op = "Clip" /\ rt.stack # <<>>

AllIntegers(items) ==
    \A i \in 1..Len(items) : items[i].type \in {"integer", "neg_integer"}

\* The rectangle a list of up to four integers asks for
ClipAskedFor(items) ==
    [i \in 1..4 |-> IF i <= Len(items) THEN number_of(items[i])
                    ELSE Screen_area[i]]

ClipRefused ==
    /\ ~last'.ok
    /\ Screen' = Screen

ClipSetsFirstItems ==
    (/\ ClipArgument.type = "list"
     /\ Len(ClipArgument.items) <= 4
     /\ AllIntegers(ClipArgument.items))
    => /\ last'.ok
       /\ error' = "none"
       /\ Screen'.clip = ClipAskedFor(ClipArgument.items)

ClipTooManyItems ==
    (/\ ClipArgument.type = "list"
     /\ Len(ClipArgument.items) > 4)
    => /\ ClipRefused
       /\ error' \in {"value", "type"}
       /\ AllIntegers(ClipArgument.items) => error' = "value"

ClipItemNotInteger ==
    (/\ ClipArgument.type = "list"
     /\ ~AllIntegers(ClipArgument.items))
    => /\ ClipRefused
       /\ error' \in {"value", "type"}
       /\ Len(ClipArgument.items) <= 4 => error' = "type"

ClipNotList ==
    ClipArgument.type # "list" => ClipRefused /\ error' = "type"

\* C30: Clip with a list of k <= 4 integers sets the first k of x1, y1, x2,
\* y2 to the items and the others to the whole screen, so that Clip with
\* the empty list sets the whole screen; with a list of more than 4 items
\* (value error), with an item that is no integer or with an argument that
\* is no list (type error) it returns ERROR and leaves the clipping
\* rectangle as it was
C30_ClipSetsOrRefuses ==
    [][ClipRuns => /\ ClipSetsFirstItems
                   /\ ClipTooManyItems
                   /\ ClipItemNotInteger
                   /\ ClipNotList]_vars

\* Clip with { 10 20 } has set x1 and y1 and left x2 and y2 at the whole
\* screen; the empty list is its next argument
C30_Witness ==
    /\ last.op = "Clip" /\ last.ok
    /\ Screen.clip = <<10, 20, ScreenWidth - 1, ScreenHeight - 1>>
    /\ rt.stack = <<ListOf(<<>>)>>

(***************************************************************************)
(* The two shift planes                                                    *)
(***************************************************************************)
\* C31: shift and xshift are never both true: whatever key events came, at
\* most one of the two shift planes is active
C31_OneShiftPlane == ~(ui.shift /\ ui.xshift)

\* The second press of SHIFT: shift was set, and the press has set xshift
\* and reset shift
C31_Witness ==
    /\ last.op = "key" /\ last.key = KEY_SHIFT
    /\ last.plane = 1
    /\ ui.xshift /\ ~ui.shift

====
